---- MODULE Spec2Model ----
(***************************************************************************)
(* Boundary-condition flux resolution (mirgecom/boundary.py) and the       *)
(* inviscid divergence assembly (mirgecom/euler.py).                       *)
(*                                                                         *)
(* Fields are modelled at one node of a boundary face in two space         *)
(* dimensions.  All quantities are exact integers: the inputs are drawn    *)
(* from grids on which every division the code performs is exact, and a    *)
(* unit normal is a pair of integer numerators over a common denominator   *)
(* (3/5, 4/5), so that the arithmetic of the code is reproduced without    *)
(* rounding.                                                               *)
(***************************************************************************)
EXTENDS Integers, Sequences, FiniteSets, TLC

VARIABLES
    bc,        \* the boundary object (its class, resolved slots, parameters)
    kwargs,    \* the strategy keywords the caller passed to bc's constructor
    ctor,      \* the arguments of the last constructor call, and what it raised
    out,       \* the record of the last flux operation evaluated on bc
    epc,       \* euler_operator: position in the evaluation
    emesh,     \* euler_operator: boundary tags present on the mesh
    ebnd,      \* euler_operator: the tags that have an entry in *boundaries*
    emix,      \* euler_operator: state.is_mixture
    eorder,    \* euler_operator: iteration order of the *boundaries* mapping
    elog,      \* euler_operator: the events issued so far, in order
    eflux,     \* euler_operator: boundary tags whose flux is in the sum
    eop,       \* euler_operator or entropy_stable_euler_operator
    epairs,    \* euler_operator: the interior trace pairs, in list order
    edone,     \* euler_operator: interior trace pairs whose flux is in the sum
    esum,      \* euler_operator: inviscid_flux_bnd as summed so far
    etseed,    \* euler_operator: tseed_interior_pairs
    nodes,     \* the nodes of a boundary face and the exterior state at each
    lim,       \* bound_preserving_limiter: the arguments and result of a call
    drv        \* the example driver: its step loop and the files it wrote

bvars == <<bc, kwargs, ctor, out>>
evars ==
    <<epc, emesh, ebnd, emix, eorder, elog, eflux, eop, epairs, edone, esum,
      etseed>>
\* the variables of the modules beside the boundaries and the operators
mvars == <<lim, drv>>
vars ==
    <<bc, kwargs, ctor, out, epc, emesh, ebnd, emix, eorder, elog, eflux, eop,
      epairs, edone, esum, etseed, nodes, lim, drv>>

----------------------------------------------------------------------------
(* The shapes of the records of the model: the empty value of each.       *)

None == "None"

ZeroVec == <<0, 0>>

\* the object before any constructor has run
NoBoundary ==
    [cls |-> None, wall_temp |-> 0, pressure |-> 0, wall_velocity |-> ZeroVec,
     warned |-> FALSE, av_num_flux_func |-> None, bnd_grad_av_func |-> None,
     inviscid_flux_func |-> None, bnd_state_func |-> None,
     bnd_temperature_func |-> None, grad_num_flux_func |-> None,
     cv_gradient_flux_func |-> None, temperature_grad_flux_func |-> None,
     viscous_flux_func |-> None, bnd_grad_cv_func |-> None,
     bnd_grad_temperature_func |-> None,
     free_stream_temperature |-> 0, free_stream_velocity |-> ZeroVec,
     free_stream_mass_fractions |-> <<>>,
     free_stream_state |-> [mass |-> 0, energy |-> 0, momentum |-> ZeroVec,
                            species_mass |-> <<>>]]

\* parameters the subclasses store on the object
NoParams ==
    [wall_temp |-> 0, pressure |-> 0, wall_velocity |-> ZeroVec,
     free_stream_temperature |-> 0, free_stream_velocity |-> ZeroVec,
     free_stream_mass_fractions |-> <<>>,
     free_stream_state |-> [mass |-> 0, energy |-> 0, momentum |-> ZeroVec,
                            species_mass |-> <<>>]]

\* The arguments of a constructor call and the exception it raised.
\*   velocity_given        FALSE when the velocity argument is left None
\*   mass_fractions_given  FALSE when free_stream_mass_fractions is left None
\*   mass_fractions_arg    mass fractions, in halves
NoCtor ==
    [class |-> None, dim |-> 0, numspecies |-> 0,
     velocity_given |-> FALSE, velocity_arg |-> <<>>,
     mass_fractions_given |-> FALSE, mass_fractions_arg |-> <<>>,
     temperature_arg |-> 0, pressure_arg |-> 0, density_arg |-> 0,
     raised |-> None]

\* conserved variables at a node
NoState == [mass |-> 0, energy |-> 0, momentum |-> ZeroVec, species_mass |-> <<>>]

\* a unit normal num/den
NoNormal == [num |-> ZeroVec, den |-> 1]

\* grad(CV) and grad(T) at a node
NoGrad ==
    [grad_cv |-> [mass |-> ZeroVec, energy |-> ZeroVec,
                  momentum |-> <<ZeroVec, ZeroVec>>, species_mass |-> <<>>],
     grad_t |-> ZeroVec]

\* The record of one flux evaluation.
\*   ran        the flux function the operation dispatched to
\*   state_func the exterior-state function that produced state_plus
\*   state_plus the exterior state paired with, or used instead of, the
\*              interior state
\*   num_flux   the flux applied to the pair: the caller's
\*              numerical_flux_func, the gradient numerical flux, or the
\*              physical viscous_flux
\*   numerical_flux_func  the numerical flux function the caller passed
\*   flux       the inviscid flux, or the artificial-viscosity flux, returned
\*   error      the exception that ended the evaluation
NoCall ==
    [op |-> None, ran |-> None,
     state_minus |-> NoState, nhat |-> NoNormal,
     grad_cv_minus |-> NoGrad.grad_cv, grad_t_minus |-> ZeroVec,
     state_func |-> None, state_plus |-> NoState, cv_face |-> NoState,
     temperature_func |-> None, t_plus |-> 0, t_face |-> 0, flux_t |-> ZeroVec,
     grad_cv_plus |-> NoGrad.grad_cv, grad_t_plus |-> ZeroVec,
     num_flux |-> None, numerical_flux_func |-> None, flux |-> NoState,
     error |-> None]

\* One call of bound_preserving_limiter on an element of two nodes.
\*   field           the nodal values of the input field
\*   mmax_given      FALSE when mmax is left None
\*   cell_avgs       the cell average the result is built around
\*   theta           the scaling factor _theta, a fraction num/den
\*   result          the nodal values returned, fractions num/den
NoLimiter ==
    [called |-> FALSE, field |-> <<>>, mmin |-> 0, mmax_given |-> FALSE,
     mmax |-> 0, modify_average |-> FALSE, cell_avgs |-> 0,
     theta |-> [num |-> 0, den |-> 1], result |-> <<>>]

\* a nodal value: a number num/den, or NaN
Number(n, d) == [num |-> n, den |-> d, nan |-> FALSE]

NaN == [num |-> 0, den |-> 1, nan |-> TRUE]

\* The run of the example driver.
\*   result        the state the last call returned, when returned is TRUE
\*   pc            "idle" before main, "stepping" inside advance_state,
\*                 "raised" once MyRuntimeError has left my_pre_step,
\*                 "done" once main has dumped the final data
\*   step, state   the step counter of advance_state, which main starts
\*                 without istep and so at 0 also after a restart, and the
\*                 conserved state of that step, given by the pressure and
\*                 temperature fields its dv holds
\*   rst_given     the run was started from a restart file
\*   rst_filename  that file: the case name and the step in its name
\*   calls         the number of my_pre_step calls so far
\*   remote        the health error the other ranks reported to the last call
\*   log           what the last my_pre_step call, or the final dump, did,
\*                 in order
\*   returned      the last call returned a state
\*   viz_files     the visualization files on disk: step and state
\*   rst_files     the restart files written by this run: step and state
NoDriver ==
    [result |-> [pressure |-> <<Number(1, 1), Number(1, 1)>>,
                 temperature |-> <<Number(1, 1), Number(1, 1)>>],
     pc |-> "idle", step |-> 0,
     state |-> [pressure |-> <<Number(1, 1), Number(1, 1)>>,
                temperature |-> <<Number(1, 1), Number(1, 1)>>],
     rst_given |-> FALSE, rst_filename |-> [step |-> 0, cname |-> None],
     calls |-> 0, remote |-> FALSE, log |-> <<>>, returned |-> FALSE,
     viz_files |-> {}, rst_files |-> {}]

\* an event of one evaluation of the right-hand side
NoEvent == [ev |-> None, tag |-> 0]

\* One evaluation of an exterior-state function on the nodes of a face.
\*   op          the exterior-state function
\*   state_minus the interior state at each node
\*   nhat        the unit normal at each node
\*   supersonic  the array the function passes to actx.np.where
\*   state_plus  the exterior state at each node
\*   changed     the node whose interior state differs from the evaluation
\*               before, 0 for the first evaluation on the face
NoFace ==
    [op |-> None, state_minus |-> <<>>, nhat |-> <<>>, supersonic |-> <<>>,
     state_plus |-> <<>>, changed |-> 0]

----------------------------------------------------------------------------
(* Bounds of the input grids. *)

\* mass density is 12*k for k in 1..MaxRho: every average and every pressure
\* the operations form on these grids is a whole number
MaxRho == 2
\* each velocity component is 25*k for k in -MaxVel..MaxVel
MaxVel == 2
\* temperature is 300*j*j for j in 1..MaxT (speed of sound 50*j)
MaxT == 2
\* number of species carried by the state is 0..MaxSpecies
MaxSpecies == 1
\* number of boundary tags on the mesh of the euler_operator model
MaxTags == 3
\* number of interior trace pairs of the euler_operator model is 0..MaxPairs
MaxPairs == 2
\* the ambient dimension passed to a constructor is 1..MaxDim
MaxDim == 3

\* a face has MaxNodes nodes
MaxNodes == 2

\* nodal values of a field to limit are 4*k for k in -MaxField..MaxField
MaxField == 2

----------------------------------------------------------------------------
(* Vectors of the ambient dimension (2) and unit normals. *)

Dot(u, v) == u[1] * v[1] + u[2] * v[2]

VecAdd(u, v) == <<u[1] + v[1], u[2] + v[2]>>

VecSub(u, v) == <<u[1] - v[1], u[2] - v[2]>>

VecScale(k, u) == <<k * u[1], k * u[2]>>

VecDiv(u, k) == <<u[1] \div k, u[2] \div k>>

\* np.dot(u, nhat) for the unit normal nhat = n.num / n.den
DotN(u, n) == Dot(u, n.num) \div n.den

\* k * nhat
ScaleN(k, n) == VecDiv(VecScale(k, n.num), n.den)

\* discr.normal(btag) at a node: axis-aligned and oblique unit normals
Normals ==
    { [num |-> <<1, 0>>, den |-> 1], [num |-> <<0, 1>>, den |-> 1],
      [num |-> <<-1, 0>>, den |-> 1], [num |-> <<0, -1>>, den |-> 1],
      [num |-> <<3, 4>>, den |-> 5], [num |-> <<-4, 3>>, den |-> 5] }

RECURSIVE SqrtSearch(_, _, _)
SqrtSearch(x, lo, hi) ==
    IF lo >= hi THEN lo
    ELSE LET mid == (lo + hi + 1) \div 2
         IN  IF mid * mid <= x THEN SqrtSearch(x, mid, hi)
             ELSE SqrtSearch(x, lo, mid - 1)

\* actx.np.sqrt on the perfect squares of the input grid
Sqrt(x) == SqrtSearch(x, 0, 46340)

----------------------------------------------------------------------------
(* Gas model: an ideal single gas, gamma = GammaNum/GammaDen.             *)

GammaNum == 5
GammaDen == 3
GasConst == 5

\* gas_model.eos.kinetic_energy(cv) = |momentum|^2 / (2 mass)
\* (the quotients below are whole on every state the input grids produce)
kinetic_energy(cv) == Dot(cv.momentum, cv.momentum) \div (2 * cv.mass)

\* gas_model.eos.pressure(cv) = (gamma - 1) (energy - kinetic energy)
pressure(cv) ==
    ((GammaNum - GammaDen) * (cv.energy - kinetic_energy(cv))) \div GammaDen

\* gas_model.eos.temperature(cv) = pressure / (R mass)
temperature(cv) == pressure(cv) \div (GasConst * cv.mass)

\* gas_model.eos.sound_speed(cv) = sqrt(gamma pressure / mass)
speed_of_sound(cv) == Sqrt((GammaNum * pressure(cv)) \div (GammaDen * cv.mass))

\* gas_model.eos.get_internal_energy(temperature) = R T / (gamma - 1)
get_internal_energy(t) == (GasConst * t * GammaDen) \div (GammaNum - GammaDen)

\* FluidState.velocity = momentum / mass
velocity(cv) == VecDiv(cv.momentum, cv.mass)

\* make_conserved(dim, mass, energy, momentum, species_mass)
make_conserved(mass, energy, momentum, species_mass) ==
    [mass |-> mass, energy |-> energy, momentum |-> momentum,
     species_mass |-> species_mass]

\* The interior state of density rho, velocity v, temperature t, ns species.
PrimitiveState(rho, v, t, ns) ==
    make_conserved(rho,
                   rho * get_internal_energy(t) + (rho * Dot(v, v)) \div 2,
                   VecScale(rho, v),
                   [i \in 1..ns |-> rho \div 2])

VelocityGrid == { 25 * k : k \in (0 - MaxVel)..MaxVel }

InteriorStates ==
    { PrimitiveState(12 * r, <<vx, vy>>, 300 * j * j, ns) :
        r \in 1..MaxRho, vx \in VelocityGrid, vy \in VelocityGrid,
        j \in 1..MaxT, ns \in 0..MaxSpecies }


----------------------------------------------------------------------------
(* Gradients of the conserved variables and of the temperature.           *)

\* grad(CV): one gradient vector per conserved component
make_grad_cv(mass, energy, momentum, species_mass) ==
    [mass |-> mass, energy |-> energy, momentum |-> momentum,
     species_mass |-> species_mass]

\* interior gradients handed to viscous_divergence_flux, ns species
GradInputs(ns) ==
    { [grad_cv |-> make_grad_cv(<<1200 * k, 0>>, <<600, 1200 * k>>,
                           <<(<<600 * k, 0>>), (<<1200, 600 * k>>)>>,
                           [i \in 1..ns |-> <<600, 1200 * k>>]),
       grad_t |-> <<25 * k, 50>>] : k \in 0..1 }

\* mirgecom.flux.num_flux_central(u_minus, u_plus) = (u_minus + u_plus)/2
\* (the sum is even on every pair of states the input grids produce)
num_flux_central(a, b) == (a + b) \div 2

\* num_flux_central applied to a pair of conserved-variable records
num_flux_central_cv(a, b) ==
    make_conserved(num_flux_central(a.mass, b.mass),
                   num_flux_central(a.energy, b.energy),
                   <<num_flux_central(a.momentum[1], b.momentum[1]),
                     num_flux_central(a.momentum[2], b.momentum[2])>>,
                   [i \in 1..Len(a.species_mass) |->
                       IF i <= Len(b.species_mass)
                       THEN num_flux_central(a.species_mass[i], b.species_mass[i])
                       ELSE a.species_mass[i]])

----------------------------------------------------------------------------
(* PrescribedFluidBoundary.__init__: resolution of the ten sub-strategies. *)

KwargNames ==
    { "inviscid_flux_func", "boundary_state_func",
      "temperature_gradient_flux_func", "boundary_temperature_func",
      "cv_gradient_flux_func", "gradient_numerical_flux_func",
      "viscous_flux_func", "boundary_gradient_cv_func",
      "boundary_gradient_temperature_func", "boundary_grad_av_func" }

\* a call of __init__ that passes no keyword argument
NoKwargs == [k \in KwargNames |-> None]

\* a resolution that drops the caller's function
ResolveAlwaysDefault(given, default) == default

\* `if not self._f: self._f = default`
Resolve(given, default) == IF given = None THEN default ELSE given

\* a warning keyed on the exterior-state strategy alone
WarnsWithoutStateFunc(kw) == kw["boundary_state_func"] = None

\* the condition of the "Using dummy boundary" warning
WarnsDummy(kw) ==
    kw["inviscid_flux_func"] = None /\ kw["boundary_state_func"] = None

PrescribedFluidBoundary_init(cls, params, kw) ==
    [cls |-> cls,
     wall_temp |-> params.wall_temp,
     pressure |-> params.pressure,
     wall_velocity |-> params.wall_velocity,
     warned |-> WarnsDummy(kw),
     av_num_flux_func |-> "num_flux_central",
     bnd_grad_av_func |->
         Resolve(kw["boundary_grad_av_func"], "_identical_grad_av"),
     inviscid_flux_func |->
         Resolve(kw["inviscid_flux_func"], "_inviscid_flux_for_prescribed_state"),
     bnd_state_func |->
         Resolve(kw["boundary_state_func"], "_identical_state"),
     bnd_temperature_func |->
         Resolve(kw["boundary_temperature_func"],
                 "_temperature_for_prescribed_state"),
     grad_num_flux_func |->
         Resolve(kw["gradient_numerical_flux_func"], "num_flux_central"),
     cv_gradient_flux_func |->
         Resolve(kw["cv_gradient_flux_func"], "_gradient_flux_for_prescribed_cv"),
     temperature_grad_flux_func |->
         Resolve(kw["temperature_gradient_flux_func"],
                 "_gradient_flux_for_prescribed_temperature"),
     viscous_flux_func |->
         Resolve(kw["viscous_flux_func"], "_viscous_flux_for_prescribed_state"),
     bnd_grad_cv_func |->
         Resolve(kw["boundary_gradient_cv_func"], "_identical_grad_cv"),
     bnd_grad_temperature_func |->
         Resolve(kw["boundary_gradient_temperature_func"],
                 "_identical_grad_temperature"),
     free_stream_temperature |-> params.free_stream_temperature,
     free_stream_velocity |-> params.free_stream_velocity,
     free_stream_mass_fractions |-> params.free_stream_mass_fractions,
     free_stream_state |-> params.free_stream_state]


----------------------------------------------------------------------------
(* Exterior-state functions of the boundary classes.                      *)

\* an exterior state that copies the interior one but for its momentum
identical_state_at_rest(state_minus) ==
    make_conserved(state_minus.mass, state_minus.energy, ZeroVec,
                   state_minus.species_mass)

\* PrescribedFluidBoundary._identical_state
identical_state(state_minus) == state_minus

\* the caller's own exterior-state function: a fixed prescribed state
user_boundary_state_func(state_minus) ==
    make_conserved(4, 4 * get_internal_energy(300), ZeroVec,
                   [i \in 1..Len(state_minus.species_mass) |-> 2])

\* a slip state that removes the normal momentum instead of reflecting it
adiabatic_slip_state_projecting(state_minus, nhat) ==
    make_conserved(state_minus.mass, state_minus.energy,
                   VecSub(state_minus.momentum,
                          ScaleN(DotN(state_minus.momentum, nhat), nhat)),
                   state_minus.species_mass)

\* AdiabaticSlipBoundary.adiabatic_slip_state
adiabatic_slip_state(state_minus, nhat) ==
    LET ext_mom == VecSub(state_minus.momentum,
                          ScaleN(2 * DotN(state_minus.momentum, nhat), nhat))
    IN  make_conserved(state_minus.mass, state_minus.energy, ext_mom,
                       state_minus.species_mass)

\* a no-slip state for a wall at rest, whatever the wall velocity
adiabatic_noslip_state_at_rest(self, state_minus) ==
    make_conserved(state_minus.mass, state_minus.energy,
                   VecScale(-1, state_minus.momentum), state_minus.species_mass)

\* AdiabaticNoslipMovingBoundary.adiabatic_noslip_state
adiabatic_noslip_state(self, state_minus) ==
    LET wall_pen == VecScale(2 * state_minus.mass, self.wall_velocity)
        ext_mom  == VecSub(wall_pen, state_minus.momentum)
    IN  make_conserved(state_minus.mass, state_minus.energy, ext_mom,
                       state_minus.species_mass)

\* a no-slip state that keeps the interior total energy
isothermal_noslip_state_keeping_energy(self, state_minus) ==
    make_conserved(state_minus.mass, state_minus.energy,
                   VecScale(-1, state_minus.momentum), state_minus.species_mass)

\* IsothermalNoSlipBoundary.isothermal_noslip_state
isothermal_noslip_state(self, state_minus) ==
    LET temperature_wall == self.wall_temp + 0 * state_minus.mass
        velocity_plus == VecScale(-1, velocity(state_minus))
        internal_energy_plus == get_internal_energy(temperature_wall)
        total_energy_plus ==
            state_minus.mass * internal_energy_plus
            + (state_minus.mass * Dot(velocity_plus, velocity_plus)) \div 2
    IN  make_conserved(state_minus.mass, total_energy_plus,
                       VecScale(-1, state_minus.momentum),
                       state_minus.species_mass)

\* actx.np.greater(boundary_speed, speed_of_sound)
outflow_is_supersonic(boundary_speed, c) == boundary_speed > c

\* OutflowBoundary.outflow_state
outflow_state(self, state_minus, nhat) ==
    LET boundary_vel == ScaleN(DotN(velocity(state_minus), nhat), nhat)
        boundary_speed == Sqrt(Dot(boundary_vel, boundary_vel))
        c == speed_of_sound(state_minus)
        ke == kinetic_energy(state_minus)
        external_pressure == 2 * self.pressure - pressure(state_minus)
        boundary_pressure ==
            IF outflow_is_supersonic(boundary_speed, c)
            THEN pressure(state_minus) ELSE external_pressure
        internal_energy ==
            (boundary_pressure * GammaDen) \div (GammaNum - GammaDen)
        total_energy == internal_energy + ke
    IN  make_conserved(state_minus.mass, total_energy, state_minus.momentum,
                       state_minus.species_mass)

\* a selection made once for the element: every node takes the branch of the
\* first node
np_where_per_element(cond, a, b) ==
    [i \in DOMAIN cond |-> IF cond[1] THEN a[i] ELSE b[i]]

\* actx.np.greater(a, b) on the nodes of a face
np_greater(a, b) == [i \in DOMAIN a |-> a[i] > b[i]]

\* actx.np.where(cond, a, b) on the nodes of a face
np_where(cond, a, b) == [i \in DOMAIN cond |-> IF cond[i] THEN a[i] ELSE b[i]]

\* boundary_speed, the first argument of actx.np.greater in outflow_state
outflow_boundary_speed(state_minus, nhat) ==
    [i \in DOMAIN state_minus |->
        LET boundary_vel ==
                ScaleN(DotN(velocity(state_minus[i]), nhat[i]), nhat[i])
        IN  Sqrt(Dot(boundary_vel, boundary_vel))]

\* the array outflow_state passes to actx.np.where
outflow_greater(state_minus, nhat) ==
    np_greater(outflow_boundary_speed(state_minus, nhat),
               [i \in DOMAIN state_minus |-> speed_of_sound(state_minus[i])])

\* OutflowBoundary.outflow_state on the arrays of the nodes of a face
outflow_state_on_face(self, state_minus, nhat) ==
    LET external_pressure ==
            [i \in DOMAIN state_minus |->
                2 * self.pressure - pressure(state_minus[i])]
        boundary_pressure ==
            np_where(outflow_greater(state_minus, nhat),
                     [i \in DOMAIN state_minus |-> pressure(state_minus[i])],
                     external_pressure)
    IN  [i \in DOMAIN state_minus |->
            LET internal_energy ==
                    (boundary_pressure[i] * GammaDen) \div (GammaNum - GammaDen)
                total_energy == internal_energy + kinetic_energy(state_minus[i])
            IN  make_conserved(state_minus[i].mass, total_energy,
                               state_minus[i].momentum,
                               state_minus[i].species_mass)]

RECURSIVE CubeRootSearch(_, _, _)
CubeRootSearch(x, lo, hi) ==
    IF lo >= hi THEN lo
    ELSE LET mid == (lo + hi + 1) \div 2
         IN  IF mid * mid * mid <= x THEN CubeRootSearch(x, mid, hi)
             ELSE CubeRootSearch(x, lo, mid - 1)

\* rho_plus**(gamma_plus - 1) for gamma = 5/3, on the cubes of the input grid
PowGammaMinusOne(x) ==
    LET r == CubeRootSearch(x, 0, 1290) IN r * r

\* 2*c/(gamma - 1)
TwoCOverGammaMinusOne(c) == (2 * c * GammaDen) \div (GammaNum - GammaDen)

\* v_minus and c_minus, the arguments of actx.np.greater in inflow_state
inflow_v_minus(state_minus, nhat) ==
    [i \in DOMAIN state_minus |-> DotN(velocity(state_minus[i]), nhat[i])]

\* the array inflow_state passes to actx.np.where
inflow_greater(state_minus, nhat) ==
    np_greater(inflow_v_minus(state_minus, nhat),
               [i \in DOMAIN state_minus |-> speed_of_sound(state_minus[i])])

\* InflowBoundary.inflow_state up to make_conserved: velocity_boundary,
\* c_boundary, rho_boundary, pressure_boundary, energy_boundary and
\* species_mass_boundary on the arrays of the nodes of a face
inflow_boundary_values(self, state_minus, nhat) ==
    LET N == DOMAIN state_minus
        free == self.free_stream_state
        v_plus == [i \in N |-> DotN(velocity(free), nhat[i])]
        rho_plus == free.mass
        c_plus == speed_of_sound(free)
        v_minus == inflow_v_minus(state_minus, nhat)
        c_minus == [i \in N |-> speed_of_sound(state_minus[i])]
        ones == [i \in N |-> 0 * v_minus[i] + 1]
        r_plus_subsonic ==
            [i \in N |-> v_minus[i] + TwoCOverGammaMinusOne(c_minus[i])]
        r_plus_supersonic ==
            [i \in N |-> (v_plus[i] + TwoCOverGammaMinusOne(c_plus)) * ones[i]]
        r_minus ==
            [i \in N |-> v_plus[i] - TwoCOverGammaMinusOne(c_plus) * ones[i]]
        r_plus == np_where(np_greater(v_minus, c_minus), r_plus_supersonic,
                           r_plus_subsonic)
    IN  [i \in N |->
            LET velocity_boundary ==
                    VecAdd(velocity(free),
                           ScaleN((r_minus[i] + r_plus[i]) \div 2 - v_plus[i],
                                  nhat[i]))
                c_boundary ==
                    ((GammaNum - GammaDen) * (r_plus[i] - r_minus[i]))
                        \div (4 * GammaDen)
                c_boundary2 == c_boundary * c_boundary
                \* c_boundary^2 / (gamma_plus * entropy_boundary), with
                \* entropy_boundary =
                \*     c_plus^2 / (gamma_plus * rho_plus**(gamma_plus - 1))
                rho_boundary ==
                    (c_boundary2 * PowGammaMinusOne(rho_plus))
                        \div (c_plus * c_plus)
                pressure_boundary ==
                    (rho_boundary * c_boundary2 * GammaDen) \div GammaNum
                energy_boundary ==
                    (pressure_boundary * GammaDen) \div (GammaNum - GammaDen)
                    + rho_boundary * Dot(velocity_boundary, velocity_boundary)
                species_mass_boundary ==
                    [k \in DOMAIN free.species_mass |->
                        (rho_boundary * free.species_mass[k]) \div rho_plus]
            IN  [velocity_boundary |-> velocity_boundary,
                 c_boundary |-> c_boundary,
                 rho_boundary |-> rho_boundary,
                 pressure_boundary |-> pressure_boundary,
                 energy_boundary |-> energy_boundary,
                 species_mass_boundary |-> species_mass_boundary]]

\* InflowBoundary.inflow_state on the arrays of the nodes of a face
inflow_state_on_face(self, state_minus, nhat) ==
    LET b == inflow_boundary_values(self, state_minus, nhat)
    IN  [i \in DOMAIN state_minus |->
            make_conserved(b[i].rho_boundary, b[i].energy_boundary,
                           VecScale(b[i].rho_boundary, b[i].velocity_boundary),
                           b[i].species_mass_boundary)]

\* InflowBoundary.inflow_state at one node
inflow_state(self, state_minus, nhat) ==
    inflow_state_on_face(self, <<state_minus>>, <<nhat>>)[1]

\* gas_model.eos.get_density(pressure, temperature) = pressure / (R T)
get_density(p, t) == p \div (GasConst * t)

\* numpy.nan, the float that is not a number: no value of the grids
nan == 0 - 1

isnan(x) == x = nan

\* a * b, a + b and a / b of floats: not a number when an operand is not, so
\* that 0 * nan is nan
fmul(a, b) == IF isnan(a) \/ isnan(b) THEN nan ELSE a * b

fadd(a, b) == IF isnan(a) \/ isnan(b) THEN nan ELSE a + b

fdiv(a, b) == IF isnan(a) \/ isnan(b) THEN nan ELSE a \div b

\* np.dot(u, v) of floats
fdot(u, v) == fadd(fmul(u[1], v[1]), fmul(u[2], v[2]))

\* the mass, the energy or a momentum component of cv is not a number
cv_isnan(cv) ==
    \/ isnan(cv.mass)
    \/ isnan(cv.energy)
    \/ \E i \in DOMAIN cv.momentum : isnan(cv.momentum[i])

\* FluidState.temperature: gas_model.eos.temperature(cv), not a number when
\* the mass, the energy or the kinetic energy is not
fluid_temperature(state) ==
    IF cv_isnan(state) THEN nan ELSE temperature(state)

\* FluidState.pressure
fluid_pressure(state) == IF cv_isnan(state) THEN nan ELSE pressure(state)

\* FluidState.velocity = momentum / mass, of floats
fluid_velocity(state) ==
    [i \in DOMAIN state.momentum |-> fdiv(state.momentum[i], state.mass)]

\* FluidState.species_mass_fractions = species_mass / mass, in halves
fluid_species_mass_fractions(state) ==
    [i \in DOMAIN state.species_mass |->
        fdiv(fmul(2, state.species_mass[i]), state.mass)]

\* a far-field state whose velocity is carried over from the interior
farfield_state_drifting(self, state_minus) ==
    LET free_stream_mass_fractions ==
            [i \in DOMAIN state_minus.species_mass |->
                fadd(fmul(0, fluid_species_mass_fractions(state_minus)[i]),
                     self.free_stream_mass_fractions[i])]
        free_stream_temperature ==
            fadd(fmul(0, fluid_temperature(state_minus)),
                 self.free_stream_temperature)
        free_stream_pressure ==
            fadd(fmul(0, fluid_pressure(state_minus)), self.pressure)
        free_stream_density ==
            IF isnan(free_stream_pressure) \/ isnan(free_stream_temperature)
            THEN nan
            ELSE get_density(free_stream_pressure, free_stream_temperature)
        free_stream_velocity == fluid_velocity(state_minus)
        free_stream_internal_energy ==
            IF isnan(free_stream_temperature) THEN nan
            ELSE get_internal_energy(free_stream_temperature)
        free_stream_total_energy ==
            fadd(fmul(free_stream_density, free_stream_internal_energy),
                 fdiv(fmul(free_stream_density,
                           fdot(free_stream_velocity, free_stream_velocity)),
                      2))
    IN  make_conserved(
            free_stream_density, free_stream_total_energy,
            [i \in DOMAIN free_stream_velocity |->
                fmul(free_stream_density, free_stream_velocity[i])],
            [i \in DOMAIN free_stream_mass_fractions |->
                fdiv(fmul(free_stream_density, free_stream_mass_fractions[i]),
                     2)])

\* FarfieldBoundary.farfield_state; mass fractions are counted in halves.
\* 0*state_minus.<field> + self._<value> is a sum of floats: a field of the
\* interior state that is not a number makes the free-stream value built on
\* it not a number.
farfield_state(self, state_minus) ==
    LET free_stream_mass_fractions ==
            [i \in DOMAIN state_minus.species_mass |->
                fadd(fmul(0, fluid_species_mass_fractions(state_minus)[i]),
                     self.free_stream_mass_fractions[i])]
        free_stream_temperature ==
            fadd(fmul(0, fluid_temperature(state_minus)),
                 self.free_stream_temperature)
        free_stream_pressure ==
            fadd(fmul(0, fluid_pressure(state_minus)), self.pressure)
        free_stream_density ==
            IF isnan(free_stream_pressure) \/ isnan(free_stream_temperature)
            THEN nan
            ELSE get_density(free_stream_pressure, free_stream_temperature)
        free_stream_velocity ==
            [i \in DOMAIN state_minus.momentum |->
                fadd(fmul(0, fluid_velocity(state_minus)[i]),
                     self.free_stream_velocity[i])]
        free_stream_internal_energy ==
            IF isnan(free_stream_temperature) THEN nan
            ELSE get_internal_energy(free_stream_temperature)
        free_stream_total_energy ==
            fadd(fmul(free_stream_density, free_stream_internal_energy),
                 fdiv(fmul(free_stream_density,
                           fdot(free_stream_velocity, free_stream_velocity)),
                      2))
    IN  make_conserved(
            free_stream_density, free_stream_total_energy,
            [i \in DOMAIN free_stream_velocity |->
                fmul(free_stream_density, free_stream_velocity[i])],
            [i \in DOMAIN free_stream_mass_fractions |->
                fdiv(fmul(free_stream_density, free_stream_mass_fractions[i]),
                     2)])

\* IsothermalWallBoundary.isothermal_wall_state
isothermal_wall_state(self, state_minus) ==
    LET temperature_wall == self.wall_temp + 0 * state_minus.mass
        mom_plus == VecScale(state_minus.mass * 0, velocity(state_minus))
        internal_energy_plus == get_internal_energy(temperature_wall)
        total_energy_plus == state_minus.mass * internal_energy_plus
    IN  make_conserved(state_minus.mass, total_energy_plus, mom_plus,
                       state_minus.species_mass)

\* the exterior state built inside IsothermalWallBoundary.inviscid_wall_flux
IsothermalWall_inviscid_wall_state(state_minus) ==
    make_conserved(state_minus.mass, state_minus.energy,
                   VecScale(-1, state_minus.momentum), state_minus.species_mass)

\* AdiabaticNoslipWallBoundary.adiabatic_wall_state_for_advection
AdiabaticNoslipWall_state_for_advection(state_minus) ==
    make_conserved(state_minus.mass, state_minus.energy,
                   VecScale(-1, state_minus.momentum), state_minus.species_mass)

\* AdiabaticNoslipWallBoundary.adiabatic_wall_state_for_diffusion
AdiabaticNoslipWall_state_for_diffusion(state_minus) ==
    make_conserved(state_minus.mass, state_minus.energy,
                   VecScale(0, state_minus.momentum), state_minus.species_mass)

\* SymmetryBoundary.adiabatic_wall_state_for_advection
Symmetry_state_for_advection(state_minus, nhat) ==
    LET mom_plus == VecSub(state_minus.momentum,
                           VecScale(2, ScaleN(DotN(state_minus.momentum, nhat),
                                              nhat)))
    IN  make_conserved(state_minus.mass, state_minus.energy, mom_plus,
                       state_minus.species_mass)

\* SymmetryBoundary.adiabatic_wall_state_for_diffusion
Symmetry_state_for_diffusion(state_minus, nhat) ==
    LET mom_plus == VecSub(state_minus.momentum,
                           VecScale(2, ScaleN(DotN(state_minus.momentum, nhat),
                                              nhat)))
    IN  make_conserved(state_minus.mass, state_minus.energy, mom_plus,
                       state_minus.species_mass)

\* self._bnd_state_func(discr, btag, gas_model, state_minus): the call of the
\* function held by the slot, f
bnd_state_func(self, f, state_minus, nhat) ==
    CASE f = "_identical_state" -> identical_state(state_minus)
      [] f = "adiabatic_slip_state" -> adiabatic_slip_state(state_minus, nhat)
      [] f = "adiabatic_noslip_state" -> adiabatic_noslip_state(self, state_minus)
      [] f = "isothermal_noslip_state" ->
             isothermal_noslip_state(self, state_minus)
      [] f = "outflow_state" -> outflow_state(self, state_minus, nhat)
      [] f = "inflow_state" -> inflow_state(self, state_minus, nhat)
      [] f = "farfield_state" -> farfield_state(self, state_minus)
      [] f = "isothermal_wall_state" -> isothermal_wall_state(self, state_minus)
      [] f = "AdiabaticNoslipWallBoundary.adiabatic_wall_state_for_advection" ->
             AdiabaticNoslipWall_state_for_advection(state_minus)
      [] f = "SymmetryBoundary.adiabatic_wall_state_for_advection" ->
             Symmetry_state_for_advection(state_minus, nhat)
      [] OTHER -> user_boundary_state_func(state_minus)

----------------------------------------------------------------------------
(* Exterior-temperature functions.                                        *)

\* PrescribedFluidBoundary._temperature_for_prescribed_state
temperature_for_prescribed_state(self, state_minus, nhat) ==
    temperature(bnd_state_func(self, self.bnd_state_func, state_minus, nhat))

\* PrescribedFluidBoundary._temperature_for_interior_state
temperature_for_interior_state(state_minus) == temperature(state_minus)

\* IsothermalNoSlipBoundary.temperature_bc
IsothermalNoSlip_temperature_bc(self, state_minus) ==
    2 * self.wall_temp - temperature(state_minus)

\* IsothermalWallBoundary.temperature_bc
IsothermalWall_temperature_bc(self, state_minus) ==
    0 * temperature(state_minus) + self.wall_temp

\* AdiabaticNoslipWallBoundary.temperature_bc
AdiabaticNoslipWall_temperature_bc(state_minus) == temperature(state_minus)

\* SymmetryBoundary.temperature_bc
Symmetry_temperature_bc(state_minus) == temperature(state_minus)

\* FarfieldBoundary.temperature_bc
Farfield_temperature_bc(self, state_minus) ==
    fadd(fmul(0, fluid_temperature(state_minus)), self.free_stream_temperature)

\* the caller's own exterior-temperature function: a fixed temperature
user_boundary_temperature_func(state_minus) == 0 * temperature(state_minus) + 400

\* self._bnd_temperature_func(...): the call of the function held by the slot
bnd_temperature_func(self, f, state_minus, nhat) ==
    CASE f = "_temperature_for_prescribed_state" ->
             temperature_for_prescribed_state(self, state_minus, nhat)
      [] f = "_temperature_for_interior_state" ->
             temperature_for_interior_state(state_minus)
      [] f = "IsothermalNoSlipBoundary.temperature_bc" ->
             IsothermalNoSlip_temperature_bc(self, state_minus)
      [] f = "IsothermalWallBoundary.temperature_bc" ->
             IsothermalWall_temperature_bc(self, state_minus)
      [] f = "AdiabaticNoslipWallBoundary.temperature_bc" ->
             AdiabaticNoslipWall_temperature_bc(state_minus)
      [] f = "SymmetryBoundary.temperature_bc" ->
             Symmetry_temperature_bc(state_minus)
      [] f = "FarfieldBoundary.temperature_bc" ->
             Farfield_temperature_bc(self, state_minus)
      [] OTHER -> user_boundary_temperature_func(state_minus)

----------------------------------------------------------------------------
(* Exterior-gradient functions.                                           *)

\* v - (v . nhat) nhat
RemoveNormal(v, nhat) == VecSub(v, ScaleN(DotN(v, nhat), nhat))

\* PrescribedFluidBoundary._identical_grad_cv
identical_grad_cv(grad_cv_minus) == grad_cv_minus

\* PrescribedFluidBoundary._identical_grad_temperature
identical_grad_temperature(grad_t_minus) == grad_t_minus

\* the caller's own exterior grad(CV) function: the negated gradient
user_boundary_gradient_cv_func(grad_cv_minus) ==
    make_grad_cv(VecScale(-1, grad_cv_minus.mass),
                 VecScale(-1, grad_cv_minus.energy),
                 <<VecScale(-1, grad_cv_minus.momentum[1]),
                   VecScale(-1, grad_cv_minus.momentum[2])>>,
                 [i \in 1..Len(grad_cv_minus.species_mass) |->
                     VecScale(-1, grad_cv_minus.species_mass[i])])

\* the caller's own exterior grad(T) function: the negated gradient
user_boundary_gradient_temperature_func(grad_t_minus) ==
    VecScale(-1, grad_t_minus)

\* self._bnd_grad_cv_func(...): the call of the function held by the slot
bnd_grad_cv_func(f, grad_cv_minus) ==
    CASE f = "_identical_grad_cv" -> identical_grad_cv(grad_cv_minus)
      [] OTHER -> user_boundary_gradient_cv_func(grad_cv_minus)

\* self._bnd_grad_temperature_func(...)
bnd_grad_temperature_func(f, grad_t_minus) ==
    CASE f = "_identical_grad_temperature" ->
             identical_grad_temperature(grad_t_minus)
      [] OTHER -> user_boundary_gradient_temperature_func(grad_t_minus)

\* mirgecom.fluid.species_mass_fraction_gradient(cv, grad_cv)[i]
\*   = (grad(rho Y_i) - Y_i grad(rho)) / rho
species_mass_fraction_gradient(cv, grad_cv, i) ==
    VecDiv(VecSub(grad_cv.species_mass[i],
                  VecDiv(VecScale(cv.species_mass[i], grad_cv.mass), cv.mass)),
           cv.mass)

\* grad_cv_bc of IsothermalWallBoundary, AdiabaticNoslipWallBoundary and
\* SymmetryBoundary (the three bodies are the same)
grad_cv_bc(state_minus, grad_cv_minus, normal) ==
    LET nspecies == Len(state_minus.species_mass)
        grad_y_plus(i) ==
            RemoveNormal(species_mass_fraction_gradient(state_minus,
                                                        grad_cv_minus, i),
                         normal)
        grad_species_mass_plus ==
            [i \in 1..nspecies |->
                VecAdd(VecScale(state_minus.mass, grad_y_plus(i)),
                       VecDiv(VecScale(state_minus.species_mass[i],
                                       grad_cv_minus.mass),
                              state_minus.mass))]
    IN  make_grad_cv(grad_cv_minus.mass, grad_cv_minus.energy,
                     grad_cv_minus.momentum,
                     IF nspecies > 0 THEN grad_species_mass_plus
                     ELSE grad_cv_minus.species_mass)

\* grad_temperature_bc of AdiabaticNoslipWallBoundary and SymmetryBoundary
grad_temperature_bc(grad_t_minus, normal) == RemoveNormal(grad_t_minus, normal)

\* self._grad_num_flux_func(int, ext) on scalars; the caller's own
\* gradient numerical flux takes the exterior value
grad_num_flux_func(f, a, b) ==
    CASE f = "num_flux_central" -> num_flux_central(a, b)
      [] OTHER -> b

\* self._grad_num_flux_func(int, ext) on conserved variables
grad_num_flux_func_cv(f, a, b) ==
    CASE f = "num_flux_central" -> num_flux_central_cv(a, b)
      [] OTHER -> b

----------------------------------------------------------------------------
(* The inviscid flux and the numerical fluxes a caller passes.            *)

\* mirgecom.inviscid.inviscid_flux(state) @ normal: the analytic flux of the
\* state through the face
inviscid_flux(cv, nhat) ==
    LET vn == DotN(velocity(cv), nhat)
    IN  make_conserved(DotN(cv.momentum, nhat),
                       (cv.energy + pressure(cv)) * vn,
                       VecAdd(VecScale(vn, cv.momentum),
                              ScaleN(pressure(cv), nhat)),
                       [i \in 1..Len(cv.species_mass) |-> cv.species_mass[i] * vn])

\* q_plus - q_minus on conserved variables
jump(q_minus, q_plus) ==
    make_conserved(q_plus.mass - q_minus.mass, q_plus.energy - q_minus.energy,
                   VecSub(q_plus.momentum, q_minus.momentum),
                   [i \in 1..Len(q_minus.species_mass) |->
                       IF i <= Len(q_plus.species_mass)
                       THEN q_plus.species_mass[i] - q_minus.species_mass[i]
                       ELSE 0])

\* a numerical flux of the caller: the average of the two analytic fluxes
user_central_flux(q_minus, q_plus, nhat) ==
    num_flux_central_cv(inviscid_flux(q_minus, nhat), inviscid_flux(q_plus, nhat))

\* a numerical flux of the caller: Lax-Friedrichs with the fixed wave speed
\* 100, central flux - 50 (q_plus - q_minus)
user_lax_friedrichs_flux(q_minus, q_plus, nhat) ==
    LET central == user_central_flux(q_minus, q_plus, nhat)
        dq == jump(q_minus, q_plus)
    IN  make_conserved(central.mass - 50 * dq.mass,
                       central.energy - 50 * dq.energy,
                       VecSub(central.momentum, VecScale(50, dq.momentum)),
                       [i \in 1..Len(central.species_mass) |->
                           central.species_mass[i] - 50 * dq.species_mass[i]])

\* the numerical flux functions handed to inviscid_divergence_flux
InviscidNumericalFluxes == {"user_central_flux", "user_lax_friedrichs_flux"}

\* the numerical flux functions handed to viscous_divergence_flux
ViscousNumericalFluxes ==
    {"viscous_facial_flux_central", "user_viscous_numerical_flux"}

\* numerical_flux_func(state_pair, gas_model, normal): the call of the
\* function f the caller passed
numerical_flux_func(f, q_minus, q_plus, nhat) ==
    CASE f = "user_central_flux" -> user_central_flux(q_minus, q_plus, nhat)
      [] OTHER -> user_lax_friedrichs_flux(q_minus, q_plus, nhat)

\* the flux returned for the pair (call.state_minus, state_plus)
PairFlux(call, state_plus) ==
    numerical_flux_func(call.numerical_flux_func, call.state_minus, state_plus,
                        call.nhat)

----------------------------------------------------------------------------
(* The flux functions a slot may hold.                                    *)

\* a prescribed-state flux evaluated with the inward normal
inviscid_flux_for_prescribed_state_inward(self, call) ==
    [call EXCEPT
        !.ran = "_inviscid_flux_for_prescribed_state",
        !.state_func = self.bnd_state_func,
        !.state_plus = bnd_state_func(self, self.bnd_state_func,
                                      call.state_minus, call.nhat),
        !.num_flux = "numerical_flux_func",
        !.flux = numerical_flux_func(
                     call.numerical_flux_func, call.state_minus,
                     bnd_state_func(self, self.bnd_state_func,
                                    call.state_minus, call.nhat),
                     [num |-> VecScale(-1, call.nhat.num), den |-> call.nhat.den])]

\* PrescribedFluidBoundary._inviscid_flux_for_prescribed_state
inviscid_flux_for_prescribed_state(self, call) ==
    [call EXCEPT
        !.ran = "_inviscid_flux_for_prescribed_state",
        !.state_func = self.bnd_state_func,
        !.state_plus = bnd_state_func(self, self.bnd_state_func,
                                      call.state_minus, call.nhat),
        !.num_flux = "numerical_flux_func",
        !.flux = PairFlux(call, bnd_state_func(self, self.bnd_state_func,
                                               call.state_minus, call.nhat))]

\* IsothermalWallBoundary.inviscid_wall_flux
IsothermalWall_inviscid_wall_flux(self, call) ==
    [call EXCEPT
        !.ran = "IsothermalWallBoundary.inviscid_wall_flux",
        !.state_func = "IsothermalWallBoundary.inviscid_wall_flux",
        !.state_plus = IsothermalWall_inviscid_wall_state(call.state_minus),
        !.num_flux = "numerical_flux_func",
        !.flux = PairFlux(call,
                          IsothermalWall_inviscid_wall_state(call.state_minus))]

\* AdiabaticNoslipWallBoundary.inviscid_wall_flux
AdiabaticNoslipWall_inviscid_wall_flux(self, call) ==
    [call EXCEPT
        !.ran = "AdiabaticNoslipWallBoundary.inviscid_wall_flux",
        !.state_func =
            "AdiabaticNoslipWallBoundary.adiabatic_wall_state_for_advection",
        !.state_plus = AdiabaticNoslipWall_state_for_advection(call.state_minus),
        !.num_flux = "numerical_flux_func",
        !.flux = PairFlux(call,
                          AdiabaticNoslipWall_state_for_advection(call.state_minus))]

\* SymmetryBoundary.inviscid_wall_flux
Symmetry_inviscid_wall_flux(self, call) ==
    [call EXCEPT
        !.ran = "SymmetryBoundary.inviscid_wall_flux",
        !.state_func = "SymmetryBoundary.adiabatic_wall_state_for_advection",
        !.state_plus = Symmetry_state_for_advection(call.state_minus, call.nhat),
        !.num_flux = "numerical_flux_func",
        !.flux = PairFlux(call, Symmetry_state_for_advection(call.state_minus,
                                                             call.nhat))]

\* the caller's own inviscid flux function
user_inviscid_flux_func(self, call) ==
    [call EXCEPT !.ran = "user_inviscid_flux_func"]

\* self._inviscid_flux_func(...): the call of the function held by the slot
inviscid_flux_func(self, f, call) ==
    CASE f = "_inviscid_flux_for_prescribed_state" ->
             inviscid_flux_for_prescribed_state(self, call)
      [] f = "IsothermalWallBoundary.inviscid_wall_flux" ->
             IsothermalWall_inviscid_wall_flux(self, call)
      [] f = "AdiabaticNoslipWallBoundary.inviscid_wall_flux" ->
             AdiabaticNoslipWall_inviscid_wall_flux(self, call)
      [] f = "SymmetryBoundary.inviscid_wall_flux" ->
             Symmetry_inviscid_wall_flux(self, call)
      [] OTHER -> user_inviscid_flux_func(self, call)

\* PrescribedFluidBoundary._viscous_flux_for_prescribed_state
viscous_flux_for_prescribed_state(self, call) ==
    [call EXCEPT
        !.ran = "_viscous_flux_for_prescribed_state",
        !.state_func = self.bnd_state_func,
        !.state_plus = bnd_state_func(self, self.bnd_state_func,
                                      call.state_minus, call.nhat),
        !.grad_cv_plus = bnd_grad_cv_func(self.bnd_grad_cv_func,
                                          call.grad_cv_minus),
        !.grad_t_plus = bnd_grad_temperature_func(self.bnd_grad_temperature_func,
                                                  call.grad_t_minus),
        !.num_flux = "numerical_flux_func"]

\* an isothermal wall whose viscous flux goes through the caller's
\* numerical flux
IsothermalWall_viscous_wall_flux_blended(self, call) ==
    [call EXCEPT
        !.ran = "IsothermalWallBoundary.viscous_wall_flux",
        !.state_func = "isothermal_wall_state",
        !.state_plus = isothermal_wall_state(self, call.state_minus),
        !.grad_cv_plus = grad_cv_bc(call.state_minus, call.grad_cv_minus,
                                    call.nhat),
        !.grad_t_plus = bnd_grad_temperature_func(self.bnd_grad_temperature_func,
                                                  call.grad_t_minus),
        !.num_flux = "numerical_flux_func"]

\* IsothermalWallBoundary.viscous_wall_flux
IsothermalWall_viscous_wall_flux(self, call) ==
    [call EXCEPT
        !.ran = "IsothermalWallBoundary.viscous_wall_flux",
        !.state_func = "isothermal_wall_state",
        !.state_plus = isothermal_wall_state(self, call.state_minus),
        !.grad_cv_plus = grad_cv_bc(call.state_minus, call.grad_cv_minus,
                                    call.nhat),
        !.grad_t_plus = bnd_grad_temperature_func(self.bnd_grad_temperature_func,
                                                  call.grad_t_minus),
        !.num_flux = "viscous_flux"]

\* an adiabatic wall whose viscous flux reuses the advective exterior state
AdiabaticNoslipWall_viscous_wall_flux_advective(self, call) ==
    [call EXCEPT
        !.ran = "AdiabaticNoslipWallBoundary.viscous_wall_flux",
        !.state_func =
            "AdiabaticNoslipWallBoundary.adiabatic_wall_state_for_advection",
        !.state_plus = AdiabaticNoslipWall_state_for_advection(call.state_minus),
        !.grad_cv_plus = grad_cv_bc(call.state_minus, call.grad_cv_minus,
                                    call.nhat),
        !.grad_t_plus = grad_temperature_bc(call.grad_t_minus, call.nhat),
        !.num_flux = "viscous_flux"]

\* AdiabaticNoslipWallBoundary.viscous_wall_flux
AdiabaticNoslipWall_viscous_wall_flux(self, call) ==
    [call EXCEPT
        !.ran = "AdiabaticNoslipWallBoundary.viscous_wall_flux",
        !.state_func =
            "AdiabaticNoslipWallBoundary.adiabatic_wall_state_for_diffusion",
        !.state_plus = AdiabaticNoslipWall_state_for_diffusion(call.state_minus),
        !.grad_cv_plus = grad_cv_bc(call.state_minus, call.grad_cv_minus,
                                    call.nhat),
        !.grad_t_plus = grad_temperature_bc(call.grad_t_minus, call.nhat),
        !.num_flux = "viscous_flux"]

\* SymmetryBoundary.viscous_wall_flux
Symmetry_viscous_wall_flux(self, call) ==
    [call EXCEPT
        !.ran = "SymmetryBoundary.viscous_wall_flux",
        !.state_func = "SymmetryBoundary.adiabatic_wall_state_for_diffusion",
        !.state_plus = Symmetry_state_for_diffusion(call.state_minus, call.nhat),
        !.grad_cv_plus = grad_cv_bc(call.state_minus, call.grad_cv_minus,
                                    call.nhat),
        !.grad_t_plus = grad_temperature_bc(call.grad_t_minus, call.nhat),
        !.num_flux = "viscous_flux"]

\* the caller's own viscous flux function
user_viscous_flux_func(self, call) ==
    [call EXCEPT !.ran = "user_viscous_flux_func"]

\* self._viscous_flux_func(...): the call of the function held by the slot
viscous_flux_func(self, f, call) ==
    CASE f = "_viscous_flux_for_prescribed_state" ->
             viscous_flux_for_prescribed_state(self, call)
      [] f = "IsothermalWallBoundary.viscous_wall_flux" ->
             IsothermalWall_viscous_wall_flux(self, call)
      [] f = "AdiabaticNoslipWallBoundary.viscous_wall_flux" ->
             AdiabaticNoslipWall_viscous_wall_flux(self, call)
      [] f = "SymmetryBoundary.viscous_wall_flux" ->
             Symmetry_viscous_wall_flux(self, call)
      [] OTHER -> user_viscous_flux_func(self, call)

\* PrescribedFluidBoundary._gradient_flux_for_prescribed_cv
gradient_flux_for_prescribed_cv(self, call) ==
    LET boundary_state == bnd_state_func(self, self.bnd_state_func,
                                         call.state_minus, call.nhat)
    IN  [call EXCEPT
            !.ran = "_gradient_flux_for_prescribed_cv",
            !.state_func = self.bnd_state_func,
            !.state_plus = boundary_state,
            !.cv_face = grad_num_flux_func_cv(self.grad_num_flux_func,
                                              call.state_minus, boundary_state),
            !.num_flux = self.grad_num_flux_func]

\* the caller's own grad(CV) flux function
user_cv_gradient_flux_func(self, call) ==
    [call EXCEPT !.ran = "user_cv_gradient_flux_func"]

\* self._cv_gradient_flux_func(...)
cv_gradient_flux_func(self, f, call) ==
    CASE f = "_gradient_flux_for_prescribed_cv" ->
             gradient_flux_for_prescribed_cv(self, call)
      [] OTHER -> user_cv_gradient_flux_func(self, call)

\* PrescribedFluidBoundary._gradient_flux_for_prescribed_temperature
gradient_flux_for_prescribed_temperature(self, call) ==
    LET t_minus == temperature(call.state_minus)
        t_plus == bnd_temperature_func(self, self.bnd_temperature_func,
                                       call.state_minus, call.nhat)
        face == grad_num_flux_func(self.grad_num_flux_func, t_minus, t_plus)
    IN  [call EXCEPT
            !.ran = "_gradient_flux_for_prescribed_temperature",
            !.temperature_func = self.bnd_temperature_func,
            !.t_plus = t_plus,
            !.t_face = face,
            !.flux_t = ScaleN(face, call.nhat),
            !.num_flux = self.grad_num_flux_func]

\* the caller's own grad(T) flux function
user_temperature_gradient_flux_func(self, call) ==
    [call EXCEPT !.ran = "user_temperature_gradient_flux_func"]

\* self._temperature_grad_flux_func(...)
temperature_grad_flux_func(self, f, call) ==
    CASE f = "_gradient_flux_for_prescribed_temperature" ->
             gradient_flux_for_prescribed_temperature(self, call)
      [] OTHER -> user_temperature_gradient_flux_func(self, call)

----------------------------------------------------------------------------
(* The artificial-viscosity flux.                                         *)

\* -grad
NegGrad(grad) ==
    make_grad_cv(VecScale(-1, grad.mass),
                 VecScale(-1, grad.energy),
                 <<VecScale(-1, grad.momentum[1]),
                   VecScale(-1, grad.momentum[2])>>,
                 [i \in 1..Len(grad.species_mass) |->
                     VecScale(-1, grad.species_mass[i])])

\* PrescribedFluidBoundary._identical_grad_av
identical_grad_av(grad_av_minus) == grad_av_minus

\* AdiabaticNoslipMovingBoundary.adiabatic_noslip_grad_av
adiabatic_noslip_grad_av(grad_av_minus) == NegGrad(grad_av_minus)

\* the caller's own boundary_grad_av_func: the negated gradient
user_boundary_grad_av_func(grad_av_minus) == NegGrad(grad_av_minus)

\* AdiabaticSlipBoundary.adiabatic_slip_grad_av asks the discretization
\* for discr.norm(btag), which is not the face normal: the call ends in
\* the exception the discretization raises
DiscrNormErrors == {"TypeError", "AttributeError"}

\* self._bnd_grad_av_func(...): the call of the function held by the slot
bnd_grad_av_func(f, grad_av_minus) ==
    CASE f = "_identical_grad_av" -> identical_grad_av(grad_av_minus)
      [] f = "adiabatic_noslip_grad_av" ->
             adiabatic_noslip_grad_av(grad_av_minus)
      [] OTHER -> user_boundary_grad_av_func(grad_av_minus)

\* num_flux_central(int, ext) @ nhat on grad(Q)
av_num_flux_func_dot_normal(int, ext, nhat) ==
    LET avg(u, w) == <<num_flux_central(u[1], w[1]),
                       num_flux_central(u[2], w[2])>>
    IN  make_conserved(
            DotN(avg(int.mass, ext.mass), nhat),
            DotN(avg(int.energy, ext.energy), nhat),
            <<DotN(avg(int.momentum[1], ext.momentum[1]), nhat),
              DotN(avg(int.momentum[2], ext.momentum[2]), nhat)>>,
            [i \in 1..Len(int.species_mass) |->
                DotN(avg(int.species_mass[i], ext.species_mass[i]), nhat)])

\* PrescribedFluidBoundary.av_flux; e is the exception discr.norm raises
av_flux(self, diffusion, nhat, e) ==
    LET call == [NoCall EXCEPT !.op = "av_flux", !.nhat = nhat,
                               !.grad_cv_minus = diffusion]
    IN  IF self.bnd_grad_av_func = "adiabatic_slip_grad_av"
        THEN [call EXCEPT !.ran = self.bnd_grad_av_func, !.error = e]
        ELSE [call EXCEPT
                 !.ran = self.bnd_grad_av_func,
                 !.grad_cv_plus = bnd_grad_av_func(self.bnd_grad_av_func,
                                                   diffusion),
                 !.num_flux = self.av_num_flux_func,
                 !.flux = av_num_flux_func_dot_normal(
                              diffusion,
                              bnd_grad_av_func(self.bnd_grad_av_func, diffusion),
                              nhat)]

----------------------------------------------------------------------------
(* The four public operations of PrescribedFluidBoundary.                 *)

NewCall(op, state_minus, nhat, grads, flux_func) ==
    [NoCall EXCEPT !.op = op, !.state_minus = state_minus, !.nhat = nhat,
                   !.grad_cv_minus = grads.grad_cv,
                   !.grad_t_minus = grads.grad_t,
                   !.numerical_flux_func = flux_func]

\* PrescribedFluidBoundary.inviscid_divergence_flux
inviscid_divergence_flux(self, state_minus, nhat, flux_func) ==
    inviscid_flux_func(self, self.inviscid_flux_func,
                       NewCall("inviscid_divergence_flux", state_minus, nhat,
                               NoGrad, flux_func))

\* PrescribedFluidBoundary.cv_gradient_flux
cv_gradient_flux(self, state_minus, nhat) ==
    cv_gradient_flux_func(self, self.cv_gradient_flux_func,
                          NewCall("cv_gradient_flux", state_minus, nhat, NoGrad,
                                  None))

\* PrescribedFluidBoundary.temperature_gradient_flux
temperature_gradient_flux(self, state_minus, nhat) ==
    temperature_grad_flux_func(self, self.temperature_grad_flux_func,
                               NewCall("temperature_gradient_flux", state_minus,
                                       nhat, NoGrad, None))

\* PrescribedFluidBoundary.viscous_divergence_flux
viscous_divergence_flux(self, state_minus, nhat, grads, flux_func) ==
    viscous_flux_func(self, self.viscous_flux_func,
                      NewCall("viscous_divergence_flux", state_minus, nhat,
                              grads, flux_func))

----------------------------------------------------------------------------
(* Constructors of the boundary classes.                                  *)

\* wall temperatures handed to the isothermal walls (300 is the default)
WallTemperatures == {300, 1000}

\* boundary pressures handed to OutflowBoundary
BoundaryPressures == {14400, 54000}

\* DummyBoundary.__init__
DummyBoundary_init ==
    PrescribedFluidBoundary_init("DummyBoundary", NoParams, NoKwargs)

\* AdiabaticSlipBoundary.__init__
AdiabaticSlipBoundary_init ==
    PrescribedFluidBoundary_init("AdiabaticSlipBoundary", NoParams,
        [NoKwargs EXCEPT
            !["boundary_state_func"] = "adiabatic_slip_state",
            !["boundary_temperature_func"] = "_temperature_for_interior_state",
            !["boundary_grad_av_func"] = "adiabatic_slip_grad_av"])

\* np.zeros(n)
zeros(n) == [i \in 1..n |-> 0]

\* the wall velocity after `if wall_velocity is None: np.zeros(shape=(dim,))`
MovingWallVelocity(a) ==
    IF a.velocity_given THEN a.velocity_arg ELSE zeros(a.dim)

\* a moving wall that accepts a wall velocity of any length
AdiabaticNoslipMovingBoundary_raises_never(a) == FALSE

\* AdiabaticNoslipMovingBoundary.__init__: the ValueError
AdiabaticNoslipMovingBoundary_raises(a) == Len(MovingWallVelocity(a)) # a.dim

\* AdiabaticNoslipMovingBoundary.__init__
AdiabaticNoslipMovingBoundary_init(wall_velocity) ==
    PrescribedFluidBoundary_init("AdiabaticNoslipMovingBoundary",
        [NoParams EXCEPT !.wall_velocity = wall_velocity],
        [NoKwargs EXCEPT
            !["boundary_state_func"] = "adiabatic_noslip_state",
            !["boundary_temperature_func"] = "_temperature_for_interior_state",
            !["boundary_grad_av_func"] = "adiabatic_noslip_grad_av"])

\* IsothermalNoSlipBoundary.__init__
IsothermalNoSlipBoundary_init(wall_temperature) ==
    PrescribedFluidBoundary_init("IsothermalNoSlipBoundary",
        [NoParams EXCEPT !.wall_temp = wall_temperature],
        [NoKwargs EXCEPT
            !["boundary_state_func"] = "isothermal_noslip_state",
            !["boundary_temperature_func"] =
                "IsothermalNoSlipBoundary.temperature_bc"])

\* the free-stream velocity after
\* `if free_stream_velocity is None: np.zeros(numdim)`
FarfieldVelocity(a) ==
    IF a.velocity_given THEN a.velocity_arg ELSE zeros(a.dim)

\* FarfieldBoundary.__init__: the three ValueErrors
FarfieldBoundary_raises(a) ==
    \/ Len(FarfieldVelocity(a)) # a.dim
    \/ /\ a.numspecies > 0
       /\ \/ ~a.mass_fractions_given
          \/ Len(a.mass_fractions_arg) # a.numspecies

\* FarfieldBoundary.__init__
FarfieldBoundary_init(a) ==
    PrescribedFluidBoundary_init("FarfieldBoundary",
        [NoParams EXCEPT
            !.pressure = a.pressure_arg,
            !.free_stream_temperature = a.temperature_arg,
            !.free_stream_velocity = FarfieldVelocity(a),
            !.free_stream_mass_fractions = a.mass_fractions_arg],
        [NoKwargs EXCEPT
            !["boundary_state_func"] = "farfield_state",
            !["boundary_temperature_func"] = "FarfieldBoundary.temperature_bc"])

\* InflowBoundary.__init__: the ValueError
InflowBoundary_raises(a) == ~a.velocity_given

\* mirgecom.initializers.initialize_fluid_state from density, velocity and
\* temperature
initialize_fluid_state(density, vel, temp) ==
    PrimitiveState(density, vel, temp, 0)

\* InflowBoundary.__init__
InflowBoundary_init(a) ==
    PrescribedFluidBoundary_init("InflowBoundary",
        [NoParams EXCEPT
            !.free_stream_state =
                initialize_fluid_state(a.density_arg, a.velocity_arg,
                                       a.temperature_arg)],
        [NoKwargs EXCEPT !["boundary_state_func"] = "inflow_state"])

\* an outflow boundary that pairs the interior temperature with itself
OutflowBoundary_init_interior_temperature(boundary_pressure) ==
    PrescribedFluidBoundary_init("OutflowBoundary",
        [NoParams EXCEPT !.pressure = boundary_pressure],
        [NoKwargs EXCEPT
            !["boundary_state_func"] = "outflow_state",
            !["boundary_temperature_func"] = "_temperature_for_interior_state"])

\* OutflowBoundary.__init__
OutflowBoundary_init(boundary_pressure) ==
    PrescribedFluidBoundary_init("OutflowBoundary",
        [NoParams EXCEPT !.pressure = boundary_pressure],
        [NoKwargs EXCEPT !["boundary_state_func"] = "outflow_state"])

\* IsothermalWallBoundary.__init__
IsothermalWallBoundary_init(wall_temperature) ==
    PrescribedFluidBoundary_init("IsothermalWallBoundary",
        [NoParams EXCEPT !.wall_temp = wall_temperature],
        [NoKwargs EXCEPT
            !["boundary_state_func"] = "isothermal_wall_state",
            !["inviscid_flux_func"] = "IsothermalWallBoundary.inviscid_wall_flux",
            !["viscous_flux_func"] = "IsothermalWallBoundary.viscous_wall_flux",
            !["boundary_temperature_func"] =
                "IsothermalWallBoundary.temperature_bc",
            !["boundary_gradient_cv_func"] = "IsothermalWallBoundary.grad_cv_bc"])

\* AdiabaticNoslipWallBoundary.__init__
AdiabaticNoslipWallBoundary_init ==
    PrescribedFluidBoundary_init("AdiabaticNoslipWallBoundary", NoParams,
        [NoKwargs EXCEPT
            !["boundary_state_func"] =
                "AdiabaticNoslipWallBoundary.adiabatic_wall_state_for_advection",
            !["inviscid_flux_func"] =
                "AdiabaticNoslipWallBoundary.inviscid_wall_flux",
            !["viscous_flux_func"] =
                "AdiabaticNoslipWallBoundary.viscous_wall_flux",
            !["boundary_temperature_func"] =
                "AdiabaticNoslipWallBoundary.temperature_bc",
            !["boundary_gradient_cv_func"] =
                "AdiabaticNoslipWallBoundary.grad_cv_bc"])

\* SymmetryBoundary.__init__
SymmetryBoundary_init ==
    PrescribedFluidBoundary_init("SymmetryBoundary", NoParams,
        [NoKwargs EXCEPT
            !["boundary_state_func"] =
                "SymmetryBoundary.adiabatic_wall_state_for_advection",
            !["inviscid_flux_func"] = "SymmetryBoundary.inviscid_wall_flux",
            !["viscous_flux_func"] = "SymmetryBoundary.viscous_wall_flux",
            !["boundary_temperature_func"] = "SymmetryBoundary.temperature_bc",
            !["boundary_gradient_cv_func"] = "SymmetryBoundary.grad_cv_bc"])

\* the function a caller of PrescribedFluidBoundary(...) passes as keyword k
UserFunc(k) ==
    CASE k = "inviscid_flux_func" -> "user_inviscid_flux_func"
      [] k = "boundary_state_func" -> "user_boundary_state_func"
      [] k = "temperature_gradient_flux_func" ->
             "user_temperature_gradient_flux_func"
      [] k = "boundary_temperature_func" -> "user_boundary_temperature_func"
      [] k = "cv_gradient_flux_func" -> "user_cv_gradient_flux_func"
      [] k = "gradient_numerical_flux_func" ->
             "user_gradient_numerical_flux_func"
      [] k = "viscous_flux_func" -> "user_viscous_flux_func"
      [] k = "boundary_gradient_cv_func" -> "user_boundary_gradient_cv_func"
      [] k = "boundary_gradient_temperature_func" ->
             "user_boundary_gradient_temperature_func"
      [] k = "boundary_grad_av_func" -> "user_boundary_grad_av_func"

\* the keyword arguments of a call that supplies exactly the strategies in K
KwargsOf(K) == [k \in KwargNames |-> IF k \in K THEN UserFunc(k) ELSE None]

----------------------------------------------------------------------------
(* Actions on a boundary object.                                          *)

\* no call of the limiter yet
LimiterIdle == lim = NoLimiter

\* the driver has not started
DriverIdle == drv = NoDriver

BoundaryInit ==
    /\ bc = NoBoundary /\ kwargs = NoKwargs /\ ctor = NoCtor /\ out = NoCall
    /\ nodes = NoFace

EulerIdle ==
    /\ epc = 0 /\ emesh = {} /\ ebnd = {} /\ emix = FALSE
    /\ eorder = <<>> /\ elog = <<>> /\ eflux = {} /\ eop = None
    /\ epairs = <<>> /\ edone = 0 /\ esum = 0 /\ etseed = None

Init == BoundaryInit /\ EulerIdle /\ LimiterIdle /\ DriverIdle

\* a constructor runs between flux evaluations and replaces the object
\* a constructor called with arguments a returns obj
ConstructedWith(obj, kw, a) ==
    /\ out.op = None
    /\ bc' = obj
    /\ kwargs' = kw
    /\ ctor' = [a EXCEPT !.class = obj.cls, !.raised = None]
    /\ out' = NoCall
    /\ nodes' = NoFace
    /\ UNCHANGED <<evars, mvars>>

Constructed(obj, kw) == ConstructedWith(obj, kw, NoCtor)

\* a constructor called with arguments a raises ValueError: no object
RaisedValueError(cls, a) ==
    /\ out.op = None
    /\ bc' = NoBoundary
    /\ kwargs' = NoKwargs
    /\ ctor' = [a EXCEPT !.class = cls, !.raised = "ValueError"]
    /\ out' = NoCall
    /\ nodes' = NoFace
    /\ UNCHANGED <<evars, mvars>>

\* an operation is evaluated on a constructed object
Callable == bc.cls # None /\ out.op = None

\* the caller takes the flux; the object is left as it was
Return ==
    /\ out.op # None
    /\ out' = NoCall
    /\ UNCHANGED <<bc, kwargs, ctor, evars, nodes, mvars>>

ConstructDummy == Constructed(DummyBoundary_init, NoKwargs)

ConstructAdiabaticSlip == Constructed(AdiabaticSlipBoundary_init, NoKwargs)

\* the vectors a caller passes as a velocity
VelocityArgs == { <<25>>, <<25, 0>>, <<0, -50>>, <<25, 0, 0>> }

\* the mass fractions a caller passes, in halves
MassFractionArgs == { <<>>, <<2>>, <<1, 1>> }

FreeStreamTemperatures == {300, 1200}

FreeStreamPressures == {72000, 144000}

FreeStreamDensities == {64, 512}

\* AdiabaticNoslipMovingBoundary(wall_velocity, dim)
MovingWallConstructor(Dims, Vels) ==
    \E d \in Dims, given \in BOOLEAN :
        \E w \in IF given THEN Vels ELSE {<<>>} :
            LET a == [NoCtor EXCEPT !.dim = d, !.velocity_given = given,
                                    !.velocity_arg = w]
            IN  IF AdiabaticNoslipMovingBoundary_raises(a)
                THEN RaisedValueError("AdiabaticNoslipMovingBoundary", a)
                ELSE ConstructedWith(
                         AdiabaticNoslipMovingBoundary_init(
                             MovingWallVelocity(a)),
                         NoKwargs, a)

ConstructAdiabaticNoslipMoving == MovingWallConstructor({2}, {<<25, 0>>})

\* FarfieldBoundary(numdim, numspecies, free_stream_temperature,
\*                  free_stream_pressure, free_stream_velocity,
\*                  free_stream_mass_fractions)
FarfieldConstructor(Dims, Species, Vels, Fractions) ==
    \E d \in Dims, ns \in Species, given \in BOOLEAN, mfgiven \in BOOLEAN,
       t \in FreeStreamTemperatures, p \in FreeStreamPressures :
        \E v \in IF given THEN Vels ELSE {<<>>},
           y \in IF mfgiven THEN Fractions ELSE {<<>>} :
            LET a == [NoCtor EXCEPT
                         !.dim = d, !.numspecies = ns,
                         !.velocity_given = given, !.velocity_arg = v,
                         !.mass_fractions_given = mfgiven,
                         !.mass_fractions_arg = y,
                         !.temperature_arg = t, !.pressure_arg = p]
            IN  IF FarfieldBoundary_raises(a)
                THEN RaisedValueError("FarfieldBoundary", a)
                ELSE ConstructedWith(FarfieldBoundary_init(a), NoKwargs, a)

\* InflowBoundary(dim, free_stream_temperature, free_stream_density,
\*                free_stream_velocity, gas_model)
InflowConstructor(Vels, Densities) ==
    \E given \in BOOLEAN, t \in {300}, r \in Densities :
        \E v \in IF given THEN Vels ELSE {<<>>} :
            LET a == [NoCtor EXCEPT
                         !.dim = 2,
                         !.velocity_given = given, !.velocity_arg = v,
                         !.temperature_arg = t, !.density_arg = r]
            IN  IF InflowBoundary_raises(a)
                THEN RaisedValueError("InflowBoundary", a)
                ELSE ConstructedWith(InflowBoundary_init(a), NoKwargs, a)

ConstructMovingWallAnyArguments ==
    MovingWallConstructor(1..MaxDim, VelocityArgs)

ConstructFarfieldAnyArguments ==
    FarfieldConstructor(1..MaxDim, 0..(MaxSpecies + 1), VelocityArgs,
                        MassFractionArgs)

ConstructInflowAnyArguments ==
    InflowConstructor({ <<0, 0>>, <<150, 0>>, <<0, -150>> }, FreeStreamDensities)

NextConstruction ==
    \/ ConstructMovingWallAnyArguments
    \/ ConstructFarfieldAnyArguments
    \/ ConstructInflowAnyArguments

\* the constructors that validate their arguments, called with valid and
\* invalid arguments
SpecConstruction == Init /\ [][NextConstruction]_vars

ConstructIsothermalNoSlip ==
    \E tw \in WallTemperatures : Constructed(IsothermalNoSlipBoundary_init(tw),
                                            NoKwargs)

ConstructOutflow ==
    \E pb \in BoundaryPressures : Constructed(OutflowBoundary_init(pb), NoKwargs)

ConstructIsothermalWall ==
    \E tw \in WallTemperatures : Constructed(IsothermalWallBoundary_init(tw),
                                            NoKwargs)

ConstructAdiabaticNoslipWall == Constructed(AdiabaticNoslipWallBoundary_init, NoKwargs)

ConstructSymmetry == Constructed(SymmetryBoundary_init, NoKwargs)

\* PrescribedFluidBoundary() called with no keyword at all
ConstructPrescribedDefault ==
    Constructed(PrescribedFluidBoundary_init("PrescribedFluidBoundary",
                                             NoParams, NoKwargs),
                NoKwargs)

\* PrescribedFluidBoundary(...) called with any subset of the ten keywords
ConstructPrescribed ==
    \E K \in SUBSET KwargNames :
        Constructed(PrescribedFluidBoundary_init("PrescribedFluidBoundary",
                                                 NoParams, KwargsOf(K)),
                    KwargsOf(K))

CallInviscid(S, N) ==
    /\ Callable
    /\ \E s \in S, n \in N, f \in InviscidNumericalFluxes :
         out' = inviscid_divergence_flux(bc, s, n, f)
    /\ UNCHANGED <<bc, kwargs, ctor, evars, nodes, mvars>>

CallViscous(S, N) ==
    /\ Callable
    /\ \E s \in S, n \in N :
         \E g \in GradInputs(Len(s.species_mass)),
            f \in ViscousNumericalFluxes :
            out' = viscous_divergence_flux(bc, s, n, g, f)
    /\ UNCHANGED <<bc, kwargs, ctor, evars, nodes, mvars>>

CallCvGradient(S, N) ==
    /\ Callable
    /\ \E s \in S, n \in N : out' = cv_gradient_flux(bc, s, n)
    /\ UNCHANGED <<bc, kwargs, ctor, evars, nodes, mvars>>

CallTemperatureGradient(S, N) ==
    /\ Callable
    /\ \E s \in S, n \in N : out' = temperature_gradient_flux(bc, s, n)
    /\ UNCHANGED <<bc, kwargs, ctor, evars, nodes, mvars>>

InviscidDivergenceFlux == CallInviscid(InteriorStates, Normals)

ViscousDivergenceFlux == CallViscous(InteriorStates, Normals)

CvGradientFlux == CallCvGradient(InteriorStates, Normals)

TemperatureGradientFlux == CallTemperatureGradient(InteriorStates, Normals)

AvFlux ==
    /\ Callable
    /\ \E ns \in 0..MaxSpecies, n \in Normals, e \in DiscrNormErrors :
         \E g \in GradInputs(ns) : out' = av_flux(bc, g.grad_cv, n, e)
    /\ UNCHANGED <<bc, kwargs, ctor, evars, nodes, mvars>>

Next ==
    \/ ConstructDummy
    \/ ConstructAdiabaticSlip
    \/ ConstructAdiabaticNoslipMoving
    \/ ConstructIsothermalNoSlip
    \/ ConstructOutflow
    \/ ConstructIsothermalWall
    \/ ConstructAdiabaticNoslipWall
    \/ ConstructSymmetry
    \/ ConstructPrescribedDefault
    \/ InviscidDivergenceFlux
    \/ ViscousDivergenceFlux
    \/ CvGradientFlux
    \/ TemperatureGradientFlux
    \/ AvFlux
    \/ Return

\* the boundary classes evaluated over the whole input grid
Spec == Init /\ [][Next]_vars

\* interior states and normals the generic engine is evaluated on
SampleStates ==
    { PrimitiveState(24, <<25, 0>>, 300, 0),
      PrimitiveState(12, <<0, -25>>, 1200, 1) }

SampleNormals == { [num |-> <<1, 0>>, den |-> 1], [num |-> <<3, 4>>, den |-> 5] }

PrescribedInviscid == CallInviscid(SampleStates, SampleNormals)

PrescribedViscous == CallViscous(SampleStates, SampleNormals)

PrescribedCvGradient == CallCvGradient(SampleStates, SampleNormals)

PrescribedTemperatureGradient ==
    CallTemperatureGradient(SampleStates, SampleNormals)

NextPrescribed ==
    \/ ConstructPrescribed
    \/ PrescribedInviscid
    \/ PrescribedViscous
    \/ PrescribedCvGradient
    \/ PrescribedTemperatureGradient
    \/ Return

\* the generic engine constructed with every subset of its keywords
SpecPrescribed == Init /\ [][NextPrescribed]_vars

\* the exterior-state strategy of a constructed object is replaced by the
\* identity: bc._bnd_state_func = bc._identical_state
ForceIdenticalState ==
    /\ Callable
    /\ bc.bnd_state_func # "_identical_state"
    /\ bc' = [bc EXCEPT !.bnd_state_func = "_identical_state"]
    /\ UNCHANGED <<kwargs, ctor, out, evars, nodes, mvars>>

NextForced ==
    \/ ConstructDummy
    \/ ConstructAdiabaticSlip
    \/ ConstructAdiabaticNoslipMoving
    \/ ConstructIsothermalNoSlip
    \/ ConstructOutflow
    \/ ConstructIsothermalWall
    \/ ConstructAdiabaticNoslipWall
    \/ ConstructSymmetry
    \/ ForceIdenticalState
    \/ InviscidDivergenceFlux
    \/ Return

\* the boundary classes with their exterior-state strategy forced to the
\* identity
SpecForced == Init /\ [][NextForced]_vars

\* the interior states at the nodes of a face: at rest, or moving along the
\* first axis faster than sound
NodeStates ==
    { PrimitiveState(2, <<vx, 0>>, 300 * j * j, 0) :
        vx \in {-150, 0, 150}, j \in 1..2 }

\* discr.normal(btag) on a flat face
FaceNormals == { [num |-> <<1, 0>>, den |-> 1], [num |-> <<-1, 0>>, den |-> 1] }

\* self._bnd_state_func(discr, btag, gas_model, state_minus) on the arrays of
\* the nodes of a face
bnd_state_func_on_face(self, f, state_minus, nhat) ==
    CASE f = "outflow_state" -> outflow_state_on_face(self, state_minus, nhat)
      [] f = "inflow_state" -> inflow_state_on_face(self, state_minus, nhat)

\* the array the exterior-state function f passes to actx.np.where
greater_on_face(f, state_minus, nhat) ==
    CASE f = "outflow_state" -> outflow_greater(state_minus, nhat)
      [] f = "inflow_state" -> inflow_greater(state_minus, nhat)

\* the exterior-state function of the object is evaluated on a face
EvaluatedOnFace(state_minus, nhat, changed) ==
    /\ nodes' =
           [op |-> bc.bnd_state_func, state_minus |-> state_minus,
            nhat |-> nhat,
            supersonic |-> greater_on_face(bc.bnd_state_func, state_minus, nhat),
            state_plus |-> bnd_state_func_on_face(bc, bc.bnd_state_func,
                                                  state_minus, nhat),
            changed |-> changed]
    /\ UNCHANGED <<bc, kwargs, ctor, out, evars, mvars>>

\* the first evaluation of the exterior-state function f on a face
StateOnFace(f) ==
    /\ bc.bnd_state_func = f
    /\ nodes.op = None
    /\ \E state_minus \in [1..MaxNodes -> NodeStates], n \in FaceNormals :
           EvaluatedOnFace(state_minus, [i \in 1..MaxNodes |-> n], 0)

\* the next evaluation of f on the face: the interior state has changed at
\* one node
StateOnFaceAgain(f) ==
    /\ bc.bnd_state_func = f
    /\ nodes.op = f
    /\ \E i \in 1..MaxNodes :
           \E s \in NodeStates \ {nodes.state_minus[i]} :
               EvaluatedOnFace([nodes.state_minus EXCEPT ![i] = s],
                               nodes.nhat, i)

OutflowStateOnFace == StateOnFace("outflow_state")

OutflowStateOnFaceAgain == StateOnFaceAgain("outflow_state")

InflowStateOnFace == StateOnFace("inflow_state")

InflowStateOnFaceAgain == StateOnFaceAgain("inflow_state")

\* a far-field boundary of the ambient dimension, with and without species
ConstructFarfield ==
    FarfieldConstructor({2}, 0..MaxSpecies, { <<25, 0>>, <<0, -50>> }, { <<2>> })

\* the interior states with as many species as the far-field boundary was
\* constructed for
FarfieldInteriorStates ==
    { s \in InteriorStates : Len(s.species_mass) = ctor.numspecies }

FarfieldCvGradientFlux == CallCvGradient(FarfieldInteriorStates, Normals)

FarfieldTemperatureGradientFlux ==
    CallTemperatureGradient(FarfieldInteriorStates, Normals)

\* the interior states of S with one field that is not a number: the mass,
\* the energy, a momentum component or a species mass
NaNStates(S) ==
    UNION { { [s EXCEPT !.mass = nan], [s EXCEPT !.energy = nan],
              [s EXCEPT !.momentum[1] = nan] }
            \cup { [s EXCEPT !.species_mass[i] = nan] :
                       i \in DOMAIN s.species_mass } : s \in S }

\* the interior states handed to the far-field functions themselves: the
\* states at rest or moving along the first axis, and the same states with a
\* field that is not a number
FarfieldStateArguments ==
    LET S == { s \in FarfieldInteriorStates : s.momentum[2] = 0 }
    IN  S \cup NaNStates(S)

\* farfield_state(discr, btag, gas_model, state_minus) called on the object
FarfieldState ==
    /\ Callable
    /\ bc.cls = "FarfieldBoundary"
    /\ \E s \in FarfieldStateArguments :
         out' = [NoCall EXCEPT !.op = "farfield_state", !.state_minus = s,
                               !.state_func = "farfield_state",
                               !.state_plus = farfield_state(bc, s)]
    /\ UNCHANGED <<bc, kwargs, ctor, evars, nodes, mvars>>

\* temperature_bc(state_minus) called on the object
FarfieldTemperatureBc ==
    /\ Callable
    /\ bc.cls = "FarfieldBoundary"
    /\ \E s \in FarfieldStateArguments :
         out' = [NoCall EXCEPT
                    !.op = "temperature_bc", !.state_minus = s,
                    !.temperature_func = "FarfieldBoundary.temperature_bc",
                    !.t_plus = Farfield_temperature_bc(bc, s)]
    /\ UNCHANGED <<bc, kwargs, ctor, evars, nodes, mvars>>

NextFarfield ==
    \/ ConstructFarfield
    \/ FarfieldCvGradientFlux
    \/ FarfieldTemperatureGradientFlux
    \/ FarfieldState
    \/ FarfieldTemperatureBc
    \/ Return

\* a far-field boundary evaluated over the interior states
SpecFarfield == Init /\ [][NextFarfield]_vars

\* an inflow boundary whose free stream is at rest or crosses the face faster
\* than sound
ConstructInflow ==
    InflowConstructor({ <<0, 0>>, <<150, 0>>, <<-150, 0>> }, {64})

NextNodes ==
    \/ ConstructOutflow
    \/ ConstructInflow
    \/ OutflowStateOnFace
    \/ OutflowStateOnFaceAgain
    \/ InflowStateOnFace
    \/ InflowStateOnFaceAgain

\* the outflow and inflow exterior states evaluated on the nodes of a face
SpecNodes == Init /\ [][NextNodes]_vars

----------------------------------------------------------------------------
(* bound_preserving_limiter on one element of two nodes of equal weight.  *)
(* The unit of the field values is the 1e-13 the code adds to the         *)
(* denominators; the scaling factor and the result are exact fractions.   *)

\* the 1e-13 of the denominators of _theta
Epsilon == 1

\* the element: two nodes, quadrature weight 1 each
cell_size == 2

Abs(x) == IF x < 0 THEN 0 - x ELSE x

\* abs(n/d) as a fraction
AbsRatio(n, d) == [num |-> Abs(n), den |-> Abs(d)]

One == [num |-> 1, den |-> 1]

\* actx.np.minimum on fractions
np_minimum(a, b) == IF a.num * b.den <= b.num * a.den THEN a ELSE b

\* op.elementwise_integral(dcoll, field)
elementwise_integral(field) == field[1] + field[2]

\* op.elementwise_min(dcoll, field)
elementwise_min(field) == IF field[1] <= field[2] THEN field[1] ELSE field[2]

\* op.elementwise_max(dcoll, field)
elementwise_max(field) == IF field[1] >= field[2] THEN field[1] ELSE field[2]

\* the cell average after `if modify_average:` and `if mmax is not None:`
limiter_cell_avgs(field, mmin, mmax_given, mmax, modify_average) ==
    LET cell_avgs0 == elementwise_integral(field) \div cell_size
        cell_avgs1 ==
            IF modify_average
            THEN (IF cell_avgs0 > mmin THEN cell_avgs0 ELSE mmin)
            ELSE cell_avgs0
    IN  [lower |-> cell_avgs1,
         upper |-> IF mmax_given
                   THEN (IF cell_avgs1 > mmax THEN mmax ELSE cell_avgs1)
                   ELSE cell_avgs1]

\* _theta
limiter_theta(field, mmin, mmax_given, mmax, modify_average) ==
    LET avgs == limiter_cell_avgs(field, mmin, mmax_given, mmax, modify_average)
        mmin_i == elementwise_min(field)
        theta1 ==
            np_minimum(One,
                       IF mmin_i < mmin
                       THEN AbsRatio(mmin - avgs.lower,
                                     mmin_i - avgs.lower + Epsilon)
                       ELSE One)
        mmax_i == elementwise_max(field)
    IN  IF mmax_given
        THEN np_minimum(theta1,
                        IF mmax_i > mmax
                        THEN AbsRatio(mmax - avgs.upper,
                                      mmax_i - avgs.upper + Epsilon)
                        ELSE One)
        ELSE theta1

\* bound_preserving_limiter(dcoll, cell_size, field, mmin, mmax,
\*                          modify_average)
bound_preserving_limiter(field, mmin, mmax_given, mmax, modify_average) ==
    LET avgs == limiter_cell_avgs(field, mmin, mmax_given, mmax, modify_average)
        theta == limiter_theta(field, mmin, mmax_given, mmax, modify_average)
    IN  [called |-> TRUE, field |-> field, mmin |-> mmin,
         mmax_given |-> mmax_given, mmax |-> mmax,
         modify_average |-> modify_average, cell_avgs |-> avgs.upper,
         theta |-> theta,
         result |->
             [i \in DOMAIN field |->
                 [num |-> theta.num * (field[i] - avgs.upper)
                              + avgs.upper * theta.den,
                  den |-> theta.den]]]

\* the nodal values of the fields handed to the limiter
FieldValues == { 4 * k : k \in (0 - MaxField)..MaxField }

\* a call of the limiter
BoundPreservingLimiter ==
    /\ \E field \in [1..2 -> FieldValues], mmin \in {0, 4},
          mmax_given \in BOOLEAN, modify_average \in BOOLEAN :
         \E mmax \in IF mmax_given THEN {4, 8} ELSE {0} :
            lim' = bound_preserving_limiter(field, mmin, mmax_given, mmax,
                                            modify_average)
    /\ UNCHANGED <<bvars, evars, nodes, drv>>

NextLimiter == BoundPreservingLimiter

\* the limiter called on every field of the grid
SpecLimiter == Init /\ [][NextLimiter]_vars

----------------------------------------------------------------------------
(* The example driver doublemach_physical_av: main, my_health_check,      *)
(* my_write_viz, my_write_restart and my_pre_step, on one rank.           *)

\* the most steps advance_state takes in a run before t reaches t_final
MaxSteps == 2

\* nviz, nrestart, nhealth, nstatus
nviz == 100

nrestart == 1000

nhealth == 1

nstatus == 1

\* health_pres_min, health_pres_max, health_temp_min, health_temp_max
health_pres_min == Number(1, 10000)

health_pres_max == Number(2000000, 1)

health_temp_min == Number(1, 10000)

health_temp_max == Number(100, 1)

\* casename as main defaults it
casename == "mirgecom"

\* a < b on numbers; a comparison with NaN is false
Less(a, b) ==
    /\ ~a.nan /\ ~b.nan
    /\ LET fa == a.num \div a.den
           fb == b.num \div b.den
       IN  \/ fa < fb
           \/ fa = fb /\ (a.num % a.den) * b.den < (b.num % b.den) * a.den

\* nodal_min_loc of a field of two nodes: NaN when a node is NaN
nodal_min(field) ==
    IF field[1].nan \/ field[2].nan THEN NaN
    ELSE IF Less(field[2], field[1]) THEN field[2] ELSE field[1]

\* nodal_max_loc of a field of two nodes
nodal_max(field) ==
    IF field[1].nan \/ field[2].nan THEN NaN
    ELSE IF Less(field[1], field[2]) THEN field[2] ELSE field[1]

\* mirgecom.simutil.check_naninf_local(discr, "vol", field)
check_naninf_local(field) == field[1].nan \/ field[2].nan

\* mirgecom.simutil.check_range_local(discr, "vol", field, min, max)
check_range_local(field, min_value, max_value) ==
    Less(nodal_min(field), min_value) \/ Less(max_value, nodal_max(field))

\* mirgecom.simutil.check_step(step, interval)
check_step(step, interval) ==
    IF interval = 0 THEN TRUE
    ELSE IF interval < 0 THEN FALSE
    ELSE step % interval = 0

\* global_reduce(local, op="lor"): the flag of this rank or of another
global_reduce(local, remote) == local \/ remote

\* my_health_check(state, dv)
my_health_check(dv, remote) ==
    \/ check_naninf_local(dv.pressure)
    \/ global_reduce(check_range_local(dv.pressure, health_pres_min,
                                       health_pres_max), remote)
    \/ check_naninf_local(dv.temperature)
    \/ global_reduce(check_range_local(dv.temperature, health_temp_min,
                                       health_temp_max), remote)

\* a file of a step: what was written to it
File(step, state) == [step |-> step, state |-> state]

\* a statement of my_pre_step that acted
Did(name, step) == [step |-> step, ev |-> name]

\* my_write_viz(step, t, fluid_state): write_visfile with overwrite=True
my_write_viz(d, step, state) ==
    [d EXCEPT !.log = Append(@, Did("my_write_viz", step)),
              !.viz_files = { f \in @ : f.step # step } \cup {File(step, state)}]

\* my_write_restart(step, t, state): nothing is written when rst_fname is
\* the file the run was started from
my_write_restart(d, step, state) ==
    LET rst_fname == [step |-> step, cname |-> casename]
    IN  IF ~(d.rst_given /\ rst_fname = d.rst_filename)
        THEN [d EXCEPT !.log = Append(@, Did("write_restart_file", step)),
                       !.rst_files =
                           { f \in @ : f.step # step } \cup {File(step, state)}]
        ELSE d

\* a handler that lets the exception leave without the two dumps
graceful_exit_without_dump(d, step, state) ==
    [d EXCEPT !.log = Append(@, Did("raise", step)), !.pc = "raised"]

\* what `except MyRuntimeError:` does before the exception leaves
graceful_exit(d, step, state) ==
    LET viz == my_write_viz(d, step, state)
        rst == my_write_restart(viz, step, state)
    IN  [rst EXCEPT !.log = Append(@, Did("raise", step)), !.pc = "raised"]

\* the statements of the try block after a health check that passed
healthy_pre_step(d, step, state) ==
    LET do_viz == check_step(step, nviz)
        do_restart == check_step(step, nrestart)
        rst == IF do_restart THEN my_write_restart(d, step, state) ELSE d
        viz == IF do_viz THEN my_write_viz(rst, step, state) ELSE rst
    IN  [viz EXCEPT !.returned = TRUE, !.result = state]

\* my_pre_step(step, t, dt, state)
my_pre_step(d, step, state, remote) ==
    LET d0 == [d EXCEPT !.calls = @ + 1, !.remote = remote, !.log = <<>>,
                        !.returned = FALSE]
        do_health == check_step(step, nhealth)
        health_errors ==
            do_health /\ global_reduce(my_health_check(state, remote), remote)
    IN  IF health_errors THEN graceful_exit(d0, step, state)
        ELSE healthy_pre_step(d0, step, state)

\* the pressures and temperatures at a node
NodePressures == {NaN, Number(0, 1), Number(1, 1), Number(2000001, 1)}

NodeTemperatures == {NaN, Number(1, 10000), Number(100, 1), Number(101, 1)}

\* the states the time stepper may hand to my_pre_step
DriverStates ==
    [pressure : [1..2 -> NodePressures], temperature : [1..2 -> NodeTemperatures]]

\* the restart files a run may be started from, by the case and the step in
\* their names
RestartFiles ==
    { [step |-> s, cname |-> c] : c \in {casename, "previous"},
                                  s \in {0, 1, 2, 99} }

\* main: the run starts from the initializer or from the state a restart
\* file holds.  current_step = restart_data["step"] goes to the log manager
\* only: advance_state is called without istep and counts from 0.
DriverMain ==
    /\ drv.pc = "idle"
    /\ \E state \in DriverStates, rst_given \in BOOLEAN :
         \E rst_filename \in IF rst_given THEN RestartFiles
                             ELSE {NoDriver.rst_filename} :
            drv' = [drv EXCEPT !.pc = "stepping",
                               !.step = 0,
                               !.state = state,
                               !.rst_given = rst_given,
                               !.rst_filename = rst_filename]
    /\ UNCHANGED <<bvars, evars, nodes, lim>>

\* advance_state calls pre_step_callback on the current step and state
\* while t < t_final
MyPreStep ==
    /\ drv.pc = "stepping"
    /\ ~drv.returned
    /\ drv.calls < MaxSteps
    /\ \E remote \in BOOLEAN :
         drv' = my_pre_step(drv, drv.step, drv.state, remote)
    /\ UNCHANGED <<bvars, evars, nodes, lim>>

\* advance_state takes the step my_pre_step returned from
TimeStep ==
    /\ drv.pc = "stepping"
    /\ drv.returned
    /\ \E state \in DriverStates :
         drv' = [drv EXCEPT !.step = @ + 1, !.state = state,
                            !.returned = FALSE]
    /\ UNCHANGED <<bvars, evars, nodes, lim>>

\* advance_state returns current_step and current_cv once t has reached
\* t_final, and main dumps the final data: my_write_viz and then
\* my_write_restart of the final step and state
DumpFinalData ==
    /\ drv.pc = "stepping"
    /\ ~drv.returned
    /\ LET d0 == [drv EXCEPT !.log = <<>>]
           viz == my_write_viz(d0, drv.step, drv.state)
           rst == my_write_restart(viz, drv.step, drv.state)
       IN  drv' = [rst EXCEPT !.pc = "done"]
    /\ UNCHANGED <<bvars, evars, nodes, lim>>

NextDriver == DriverMain \/ MyPreStep \/ TimeStep \/ DumpFinalData

\* one run of the driver
SpecDriver == Init /\ [][NextDriver]_vars

----------------------------------------------------------------------------
(* euler_operator and entropy_stable_euler_operator: one evaluation of    *)
(* the right-hand side, statement by statement.                           *)

\* the boundary tags a mesh may carry
Tags == 1..MaxTags

\* the orders in which a dict with the keys S may be iterated
Orders(S) ==
    { f \in [1..Cardinality(S) -> S] : \A i, j \in DOMAIN f : f[i] = f[j] => i = j }

\* an euler_operator that issues both exchanges before it projects the
\* trace pairs of either
EulerSteps_issue_all_first(operator, is_mixture) ==
    IF operator = "euler_operator"
    THEN <<"boundary_states", "exchange_cv">>
         \o (IF is_mixture THEN <<"exchange_temperature">> ELSE <<>>)
         \o <<"interp_cv">>
         \o (IF is_mixture THEN <<"interp_temperature">> ELSE <<>>)
         \o <<"interior_states", "volume_flux", "boundary_flux", "interior_flux",
              "return">>
    ELSE <<"volume_flux">>
         \o (IF is_mixture THEN <<"exchange_temperature", "interp_temperature">>
             ELSE <<>>)
         \o <<"exchange_cv", "interp_cv", "boundary_states", "interior_states",
              "boundary_flux", "interior_flux", "return">>

\* an operator that evaluates the domain-boundary fluxes first, before the
\* interior trace pairs are exchanged
EulerSteps_boundary_flux_first(operator, is_mixture) ==
    <<"boundary_states", "volume_flux", "boundary_flux", "exchange_cv",
      "interp_cv">>
    \o (IF is_mixture THEN <<"exchange_temperature", "interp_temperature">>
        ELSE <<>>)
    \o <<"interior_states", "interior_flux", "return">>

\* the statements of the operator, in program order
EulerSteps(operator, is_mixture) ==
    IF operator = "euler_operator"
    THEN <<"boundary_states", "exchange_cv", "interp_cv">>
         \o (IF is_mixture THEN <<"exchange_temperature", "interp_temperature">>
             ELSE <<>>)
         \o <<"interior_states", "volume_flux", "boundary_flux", "interior_flux",
              "return">>
    ELSE <<"volume_flux">>
         \o (IF is_mixture THEN <<"exchange_temperature", "interp_temperature">>
             ELSE <<>>)
         \o <<"exchange_cv", "interp_cv", "boundary_states", "interior_states",
              "boundary_flux", "interior_flux", "return">>

\* the statement the evaluation is at
CurStep ==
    IF epc >= 1 /\ epc <= Len(EulerSteps(eop, emix))
    THEN EulerSteps(eop, emix)[epc] ELSE None

\* the operator has returned its right-hand side
EulerReturned == eop # None /\ epc = Len(EulerSteps(eop, emix)) + 1

Event(name, t) == [ev |-> name, tag |-> t]

\* the arguments of the evaluation: the mesh, the mapping, the state
eargs == <<emesh, ebnd, emix, eorder, eop, epairs>>

\* the flux term of boundary tag btag in inviscid_flux_bnd
BoundaryTerm(btag) == 2 ^ (btag - 1)

\* the flux term of interior trace pair p in inviscid_flux_bnd
InteriorTerm(p) == 2 ^ (MaxTags + p - 1)

\* a statement that touches no boundary tag runs and control moves on
Advance(name) ==
    /\ CurStep = name
    /\ elog' = Append(elog, Event(name, 0))
    /\ epc' = epc + 1
    /\ UNCHANGED <<bvars, nodes, mvars, eargs, eflux, edone, esum>>

\* the operator is called on a mesh with the boundary tags mesh and npairs
\* interior trace pairs, with a *boundaries* mapping whose keys, in
\* iteration order, are order
EulerCall ==
    /\ epc = 0
    /\ \E operator \in {"euler_operator", "entropy_stable_euler_operator"},
          mesh \in SUBSET Tags, mix \in BOOLEAN, npairs \in 0..MaxPairs :
         \E keys \in SUBSET mesh :
            \E order \in Orders(keys), pairs \in Orders(1..npairs) :
               /\ eop' = operator
               /\ emesh' = mesh
               /\ ebnd' = keys
               /\ emix' = mix
               /\ eorder' = order
               /\ epairs' = pairs
    /\ epc' = 1
    /\ elog' = <<>>
    /\ eflux' = {}
    /\ edone' = 0
    /\ esum' = 0
    /\ etseed' = None
    /\ UNCHANGED <<bvars, nodes, mvars>>

\* boundary_states = {btag: project_fluid_state(...) for btag in boundaries}
EulerBoundaryStates == Advance("boundary_states") /\ UNCHANGED etseed

\* interior_trace_pairs(discr, state.cv)
EulerExchangeCv == Advance("exchange_cv") /\ UNCHANGED etseed

\* interp_to_surf_quad(tpair) for each conserved-state trace pair
EulerInterpCv == Advance("interp_cv") /\ UNCHANGED etseed

\* interior_trace_pairs(discr, state.temperature), mixtures only
EulerExchangeTemperature == Advance("exchange_temperature") /\ UNCHANGED etseed

\* tseed_interior_pairs = [interp_to_surf_quad(tpair) for each temperature
\* trace pair]
EulerInterpTemperature ==
    /\ Advance("interp_temperature")
    /\ etseed' = "tseed_interior_pairs"

\* make_fluid_state_trace_pairs(cv_interior_pairs, gas_model, tseed_interior_pairs)
EulerInteriorStates == Advance("interior_states") /\ UNCHANGED etseed

\* inviscid_flux(state_quad), or the flux-differencing volume term
EulerVolumeFlux == Advance("volume_flux") /\ UNCHANGED etseed

\* a boundary flux loop whose sum starts from the second key visited
EulerBoundaryFlux_dropping_first ==
    /\ CurStep = "boundary_flux"
    /\ Cardinality(eflux) < Len(eorder)
    /\ LET btag == eorder[Cardinality(eflux) + 1]
       IN  /\ eflux' = eflux \cup {btag}
           /\ esum' = IF eflux = {} /\ btag # 1 THEN esum
                      ELSE esum + BoundaryTerm(btag)
           /\ elog' = Append(elog, Event("boundary_flux", btag))
    /\ UNCHANGED <<bvars, nodes, mvars, epc, eargs, edone, etseed>>

\* boundaries[btag].inviscid_divergence_flux(...) for the next btag in boundaries
EulerBoundaryFlux ==
    /\ CurStep = "boundary_flux"
    /\ Cardinality(eflux) < Len(eorder)
    /\ LET btag == eorder[Cardinality(eflux) + 1]
       IN  /\ eflux' = eflux \cup {btag}
           /\ esum' = esum + BoundaryTerm(btag)
           /\ elog' = Append(elog, Event("boundary_flux", btag))
    /\ UNCHANGED <<bvars, nodes, mvars, epc, eargs, edone, etseed>>

\* the sum over `for btag in boundaries` is complete
EulerBoundarySum ==
    /\ CurStep = "boundary_flux"
    /\ Cardinality(eflux) = Len(eorder)
    /\ epc' = epc + 1
    /\ UNCHANGED <<bvars, nodes, mvars, eargs, elog, eflux, edone, esum, etseed>>

\* inviscid_facial_flux(...) for the next state_pair in interior_states
EulerInteriorFlux ==
    /\ CurStep = "interior_flux"
    /\ edone < Len(epairs)
    /\ LET p == epairs[edone + 1]
       IN  /\ esum' = esum + InteriorTerm(p)
           /\ elog' = Append(elog, Event("interior_flux", p))
    /\ edone' = edone + 1
    /\ UNCHANGED <<bvars, nodes, mvars, epc, eargs, eflux, etseed>>

\* the sum over `for state_pair in interior_states` is complete
EulerInteriorSum ==
    /\ CurStep = "interior_flux"
    /\ edone = Len(epairs)
    /\ epc' = epc + 1
    /\ UNCHANGED <<bvars, nodes, mvars, eargs, elog, eflux, edone, esum, etseed>>

\* return -div_operator(...), or op.inverse_mass(...)
EulerReturn == Advance("return") /\ UNCHANGED etseed

\* the caller takes the right-hand side
EulerDone ==
    /\ EulerReturned
    /\ epc' = 0 /\ emesh' = {} /\ ebnd' = {} /\ emix' = FALSE
    /\ eorder' = <<>> /\ elog' = <<>> /\ eflux' = {} /\ eop' = None
    /\ epairs' = <<>> /\ edone' = 0 /\ esum' = 0 /\ etseed' = None
    /\ UNCHANGED <<bvars, nodes, mvars>>

NextEuler ==
    \/ EulerCall
    \/ EulerBoundaryStates
    \/ EulerExchangeCv
    \/ EulerInterpCv
    \/ EulerExchangeTemperature
    \/ EulerInterpTemperature
    \/ EulerInteriorStates
    \/ EulerVolumeFlux
    \/ EulerBoundaryFlux
    \/ EulerBoundarySum
    \/ EulerInteriorFlux
    \/ EulerInteriorSum
    \/ EulerReturn
    \/ EulerDone

\* the divergence assembly
SpecEuler == Init /\ [][NextEuler]_vars

----------------------------------------------------------------------------
(* Properties of the exterior states of the boundary classes.             *)

\* the interior momentum, the exterior momentum and the normal of the call
MomMinus == out.state_minus.momentum

MomPlus == out.state_plus.momentum

\* the signed boundary-normal velocity v . nhat of the interior state
NormalVelocity == DotN(velocity(out.state_minus), out.nhat)

\* the call built its exterior state with a reflecting slip function
SlipStateBuilt ==
    out.state_func \in { "adiabatic_slip_state",
                         "SymmetryBoundary.adiabatic_wall_state_for_advection" }

\* C1: the exterior state of AdiabaticSlipBoundary.adiabatic_slip_state and
\* of SymmetryBoundary.adiabatic_wall_state_for_advection has the normal
\* momentum of the interior state reflected (m+ . n = -(m- . n)), its
\* tangential momentum preserved (m+ - (m+ . n) n = m- - (m- . n) n), and
\* mass, total energy and species mass copied from the interior.
C1_SlipReflectsNormalMomentum ==
    SlipStateBuilt =>
        /\ DotN(MomPlus, out.nhat) = 0 - DotN(MomMinus, out.nhat)
        /\ RemoveNormal(MomPlus, out.nhat) = RemoveNormal(MomMinus, out.nhat)
        /\ out.state_plus.mass = out.state_minus.mass
        /\ out.state_plus.energy = out.state_minus.energy
        /\ out.state_plus.species_mass = out.state_minus.species_mass

\* a slip state was built on an oblique face from a momentum that has both a
\* normal and a tangential part, and carries a species
C1_ObliqueSlipReached ==
    /\ out.state_func = "adiabatic_slip_state"
    /\ out.nhat.den = 5
    /\ DotN(MomMinus, out.nhat) # 0
    /\ RemoveNormal(MomMinus, out.nhat) # ZeroVec
    /\ Len(out.state_minus.species_mass) = 1

\* C2: in OutflowBoundary.outflow_state, wherever the boundary-normal
\* velocity is greater than or equal to the interior speed of sound, equality
\* included, the exterior total energy equals the interior total energy.
C2_SupersonicOutflowKeepsEnergy ==
    (/\ out.state_func = "outflow_state"
     /\ NormalVelocity >= speed_of_sound(out.state_minus))
    => out.state_plus.energy = out.state_minus.energy

\* the subsonic energy of the outflow state of the call
SubsonicOutflowEnergy ==
    ((2 * bc.pressure - pressure(out.state_minus)) * GammaDen)
        \div (GammaNum - GammaDen)
    + kinetic_energy(out.state_minus)

\* C3: in OutflowBoundary.outflow_state, wherever the signed boundary-normal
\* velocity v . n is below the interior speed of sound, inward flow of any
\* magnitude included, the exterior total energy is
\* (2 P_boundary - P-)/(gamma - 1) + the interior kinetic energy, and
\* exterior mass, momentum and species mass equal the interior ones.
C3_SubsonicOutflowUsesBoundaryPressure ==
    (/\ out.state_func = "outflow_state"
     /\ NormalVelocity < speed_of_sound(out.state_minus))
    => /\ out.state_plus.energy = SubsonicOutflowEnergy
       /\ out.state_plus.mass = out.state_minus.mass
       /\ out.state_plus.momentum = out.state_minus.momentum
       /\ out.state_plus.species_mass = out.state_minus.species_mass

\* C4: for IsothermalWallBoundary, temperature_gradient_flux pairs the
\* interior temperature T- with T+ = 2 T_wall - T-, so that the central
\* gradient numerical flux is exactly T_wall at the face.
C4_IsothermalWallMirrorsTemperature ==
    (/\ bc.cls = "IsothermalWallBoundary"
     /\ out.op = "temperature_gradient_flux")
    => /\ out.t_plus = 2 * bc.wall_temp - temperature(out.state_minus)
       /\ out.t_face = bc.wall_temp

\* C5: for IsothermalNoSlipBoundary the exterior state has the interior mass
\* and species mass, momentum m+ = -m-, and total energy
\* rho- (e_int(T_wall) + |v-|^2/2); its temperature_bc returns
\* 2 T_wall - T-, so that the average of interior and exterior temperature
\* is exactly T_wall.
C5_IsothermalNoSlipState ==
    /\ out.state_func = "isothermal_noslip_state" =>
          /\ out.state_plus.mass = out.state_minus.mass
          /\ out.state_plus.species_mass = out.state_minus.species_mass
          /\ MomPlus = VecScale(-1, MomMinus)
          /\ 2 * out.state_plus.energy =
                2 * out.state_minus.mass * get_internal_energy(bc.wall_temp)
                + out.state_minus.mass
                  * Dot(velocity(out.state_minus), velocity(out.state_minus))
    /\ out.temperature_func = "IsothermalNoSlipBoundary.temperature_bc" =>
          /\ out.t_plus = 2 * bc.wall_temp - temperature(out.state_minus)
          /\ temperature(out.state_minus) + out.t_plus = 2 * bc.wall_temp
          /\ out.t_face = bc.wall_temp

\* the temperature flux of an isothermal no-slip wall was evaluated on a
\* moving interior state that is not at the wall temperature
C5_IsothermalNoSlipReached ==
    /\ bc.cls = "IsothermalNoSlipBoundary"
    /\ out.op = "temperature_gradient_flux"
    /\ out.temperature_func = "IsothermalNoSlipBoundary.temperature_bc"
    /\ temperature(out.state_minus) # bc.wall_temp
    /\ MomMinus # ZeroVec

\* the object was built by PrescribedFluidBoundary.__init__ with no override
DefaultBoundary ==
    \/ bc.cls = "DummyBoundary"
    \/ bc.cls = "PrescribedFluidBoundary" /\ kwargs = NoKwargs

\* C7: a PrescribedFluidBoundary constructed with no override, and
\* DummyBoundary, use the interior state as the exterior state, the interior
\* gradients of CV and of temperature as the exterior gradients, and the
\* interior temperature as the exterior temperature, in each of the four flux
\* operations, and the warning of the constructor changes none of them.
C7_DefaultBoundaryIsIdentity ==
    (DefaultBoundary /\ out.op # None) =>
        /\ bc.warned
        /\ out.op \in {"inviscid_divergence_flux", "viscous_divergence_flux",
                       "cv_gradient_flux"}
              => out.state_plus = out.state_minus
        /\ out.op = "viscous_divergence_flux"
              => /\ out.grad_cv_plus = out.grad_cv_minus
                 /\ out.grad_t_plus = out.grad_t_minus
        /\ out.op = "cv_gradient_flux" => out.cv_face = out.state_minus
        /\ out.op = "temperature_gradient_flux"
              => /\ out.t_plus = temperature(out.state_minus)
                 /\ out.t_face = temperature(out.state_minus)
                 /\ out.flux_t = ScaleN(temperature(out.state_minus), out.nhat)

\* the viscous flux of a DummyBoundary was evaluated on a moving interior
\* state with non-zero gradients
C7_DummyViscousReached ==
    /\ bc.cls = "DummyBoundary"
    /\ bc.warned
    /\ out.op = "viscous_divergence_flux"
    /\ MomMinus # ZeroVec
    /\ out.grad_cv_minus.mass # ZeroVec
    /\ out.grad_t_minus # ZeroVec

\* the object is one of the two viscous wall classes
ViscousWall ==
    bc.cls \in {"AdiabaticNoslipWallBoundary", "IsothermalWallBoundary"}

\* C10: for AdiabaticNoslipWallBoundary and IsothermalWallBoundary,
\* inviscid_divergence_flux pairs the interior state with an exterior state of
\* momentum -m- and interior mass and energy, viscous_divergence_flux
\* evaluates the viscous flux at an exterior state of zero momentum, and
\* neither operation uses the exterior state of the other.
C10_ViscousWallDualStates ==
    ViscousWall =>
        /\ out.op = "inviscid_divergence_flux" =>
              /\ MomPlus = VecScale(-1, MomMinus)
              /\ out.state_plus.mass = out.state_minus.mass
              /\ out.state_plus.energy = out.state_minus.energy
              /\ out.state_func \in
                    { "AdiabaticNoslipWallBoundary.adiabatic_wall_state_for_advection",
                      "IsothermalWallBoundary.inviscid_wall_flux" }
              /\ MomMinus # ZeroVec => MomPlus # ZeroVec
        /\ out.op = "viscous_divergence_flux" =>
              /\ MomPlus = ZeroVec
              /\ out.state_func \in
                    { "AdiabaticNoslipWallBoundary.adiabatic_wall_state_for_diffusion",
                      "isothermal_wall_state" }
              /\ MomMinus # ZeroVec => MomPlus # VecScale(-1, MomMinus)

\* the viscous flux of an adiabatic no-slip wall was evaluated on a moving
\* interior state
C10_AdiabaticWallViscousReached ==
    /\ bc.cls = "AdiabaticNoslipWallBoundary"
    /\ out.op = "viscous_divergence_flux"
    /\ out.ran = "AdiabaticNoslipWallBoundary.viscous_wall_flux"
    /\ MomMinus # ZeroVec

----------------------------------------------------------------------------
(* Properties of PrescribedFluidBoundary.__init__ and of the dispatch.    *)

\* the object was built by a direct call of PrescribedFluidBoundary(...)
GenericBoundary == bc.cls = "PrescribedFluidBoundary"

\* C8 as stated: the "dummy boundary" warning is emitted exactly when
\* boundary_state_func is left unspecified, whatever other strategies
\* (inviscid_flux_func included) are supplied.
C8_WarnsIffStateFuncMissing ==
    GenericBoundary => (bc.warned <=> kwargs["boundary_state_func"] = None)

\* C8, amended: the "dummy boundary" warning is emitted exactly when both
\* inviscid_flux_func and boundary_state_func are left unspecified; supplying
\* either of them silences it.
C8_WarnsIffStateAndFluxMissing ==
    GenericBoundary =>
        (bc.warned <=> (/\ kwargs["inviscid_flux_func"] = None
                        /\ kwargs["boundary_state_func"] = None))

\* an object was built with an inviscid flux function and no exterior-state
\* function: the identity state is its default and no warning was emitted
C8_SilentIdentityDefaultReached ==
    /\ GenericBoundary
    /\ kwargs["boundary_state_func"] = None
    /\ kwargs["inviscid_flux_func"] # None
    /\ bc.bnd_state_func = "_identical_state"
    /\ ~bc.warned

\* the slot of the object that the keyword k of __init__ fills
Slot(k) ==
    CASE k = "inviscid_flux_func" -> bc.inviscid_flux_func
      [] k = "boundary_state_func" -> bc.bnd_state_func
      [] k = "temperature_gradient_flux_func" -> bc.temperature_grad_flux_func
      [] k = "boundary_temperature_func" -> bc.bnd_temperature_func
      [] k = "cv_gradient_flux_func" -> bc.cv_gradient_flux_func
      [] k = "gradient_numerical_flux_func" -> bc.grad_num_flux_func
      [] k = "viscous_flux_func" -> bc.viscous_flux_func
      [] k = "boundary_gradient_cv_func" -> bc.bnd_grad_cv_func
      [] k = "boundary_gradient_temperature_func" -> bc.bnd_grad_temperature_func
      [] k = "boundary_grad_av_func" -> bc.bnd_grad_av_func

\* the documented default of the keyword k
DocumentedDefault(k) ==
    CASE k = "inviscid_flux_func" -> "_inviscid_flux_for_prescribed_state"
      [] k = "boundary_state_func" -> "_identical_state"
      [] k = "temperature_gradient_flux_func" ->
             "_gradient_flux_for_prescribed_temperature"
      [] k = "boundary_temperature_func" -> "_temperature_for_prescribed_state"
      [] k = "cv_gradient_flux_func" -> "_gradient_flux_for_prescribed_cv"
      [] k = "gradient_numerical_flux_func" -> "num_flux_central"
      [] k = "viscous_flux_func" -> "_viscous_flux_for_prescribed_state"
      [] k = "boundary_gradient_cv_func" -> "_identical_grad_cv"
      [] k = "boundary_gradient_temperature_func" -> "_identical_grad_temperature"
      [] k = "boundary_grad_av_func" -> "_identical_grad_av"

\* the slot the public operation op dispatches to
SlotOfOperation(op) ==
    CASE op = "inviscid_divergence_flux" -> bc.inviscid_flux_func
      [] op = "viscous_divergence_flux" -> bc.viscous_flux_func
      [] op = "cv_gradient_flux" -> bc.cv_gradient_flux_func
      [] op = "temperature_gradient_flux" -> bc.temperature_grad_flux_func

\* C9: after PrescribedFluidBoundary.__init__, for any subset of the ten
\* optional strategies supplied, every slot is non-empty, holds the caller's
\* function where one was supplied and the documented default otherwise,
\* and each of the four public operations runs exactly the function of its
\* resolved slot.
C9_SlotsResolvedAndDispatched ==
    GenericBoundary =>
        /\ \A k \in KwargNames :
              /\ Slot(k) # None
              /\ kwargs[k] # None => Slot(k) = kwargs[k]
              /\ kwargs[k] = None => Slot(k) = DocumentedDefault(k)
        /\ out.op # None => out.ran = SlotOfOperation(out.op)

\* the viscous operation ran the caller's viscous flux function on an object
\* whose other flux slots hold defaults
C9_OverrideDispatchedReached ==
    /\ GenericBoundary
    /\ kwargs["viscous_flux_func"] = "user_viscous_flux_func"
    /\ kwargs["inviscid_flux_func"] = None
    /\ kwargs["boundary_state_func"] # None
    /\ out.op = "viscous_divergence_flux"
    /\ out.ran = "user_viscous_flux_func"

----------------------------------------------------------------------------
(* Properties of the divergence assembly.                                 *)

\* C6: when euler_operator or entropy_stable_euler_operator is evaluated on
\* a mesh that has a boundary tag without an entry in *boundaries*, the
\* evaluation fails instead of returning a right-hand side that omits the
\* flux of that boundary: the operator returns only if every tag has an entry.
C6_MissingBoundaryIsFatal ==
    EulerReturned => emesh \subseteq ebnd

----------------------------------------------------------------------------
(* Consistency of the inviscid boundary flux.                             *)

\* the inviscid flux was evaluated on an object whose exterior-state slot
\* holds the identity
IdentityStateInviscid ==
    /\ bc.bnd_state_func = "_identical_state"
    /\ out.op = "inviscid_divergence_flux"

\* C11 as stated: for every boundary class, with the exterior-state strategy
\* forced to the identity and a consistent numerical flux,
\* inviscid_divergence_flux returns the analytic inviscid flux of the
\* interior state through the face.
C11_ForcedIdentityIsConsistent ==
    IdentityStateInviscid =>
        out.flux = inviscid_flux(out.state_minus, out.nhat)

\* C11, amended: the same holds for every boundary class whose inviscid flux
\* slot is _inviscid_flux_for_prescribed_state; the three wall classes
\* build their exterior state inside inviscid_wall_flux and do not read the
\* exterior-state slot.
C11_PrescribedStatePathIsConsistent ==
    (/\ IdentityStateInviscid
     /\ bc.inviscid_flux_func = "_inviscid_flux_for_prescribed_state")
    => /\ out.state_plus = out.state_minus
       /\ out.flux = inviscid_flux(out.state_minus, out.nhat)

\* an outflow boundary with its exterior state forced to the identity
\* returned the flux of a moving interior state through an oblique face,
\* under the dissipative numerical flux
C11_ForcedOutflowReached ==
    /\ bc.cls = "OutflowBoundary"
    /\ IdentityStateInviscid
    /\ out.numerical_flux_func = "user_lax_friedrichs_flux"
    /\ out.nhat.den = 5
    /\ DotN(MomMinus, out.nhat) # 0
    /\ out.flux.mass # 0

----------------------------------------------------------------------------
(* The exterior temperature of the outflow boundary.                      *)

\* temperature_gradient_flux was evaluated on an outflow boundary
OutflowTemperaturePaired ==
    /\ bc.cls = "OutflowBoundary"
    /\ out.op = "temperature_gradient_flux"

\* C12 as stated: for OutflowBoundary the exterior temperature that
\* temperature_gradient_flux pairs with the interior temperature equals the
\* interior temperature, in the supersonic and in the subsonic branch.
C12_OutflowPairsInteriorTemperature ==
    OutflowTemperaturePaired => out.t_plus = temperature(out.state_minus)

\* C12, amended: for OutflowBoundary the exterior temperature is the
\* temperature of the exterior state outflow_state builds (the default
\* exterior-temperature strategy): rho R T+ is the pressure of that state,
\* the interior pressure where outflow_state keeps the interior energy and
\* 2 P_boundary - P- where it recomputes the energy; T+ = T- in the first
\* case only.
C12_OutflowPairsExteriorStateTemperature ==
    OutflowTemperaturePaired =>
        LET keeps == NormalVelocity * NormalVelocity >
                         speed_of_sound(out.state_minus)
                             * speed_of_sound(out.state_minus)
        IN  /\ out.temperature_func = "_temperature_for_prescribed_state"
            /\ keeps => out.t_plus = temperature(out.state_minus)
            /\ ~keeps =>
                   out.t_plus * GasConst * out.state_minus.mass
                       = 2 * bc.pressure - pressure(out.state_minus)

\* an outflow boundary paired temperatures at a node of subsonic normal
\* velocity on an oblique face, and the exterior temperature differs from
\* the interior one
C12_SubsonicOutflowTemperatureReached ==
    /\ OutflowTemperaturePaired
    /\ out.nhat.den = 5
    /\ NormalVelocity > 0
    /\ NormalVelocity < speed_of_sound(out.state_minus)
    /\ out.t_plus # temperature(out.state_minus)

----------------------------------------------------------------------------
(* Configuration errors of the constructors.                              *)

\* the velocity argument was given with a length other than the dimension
WrongVelocityLength == ctor.velocity_given /\ Len(ctor.velocity_arg) # ctor.dim

\* C13: FarfieldBoundary raises exactly when the free-stream velocity length
\* differs from numdim, or numspecies > 0 and the mass fractions are missing
\* or of a length other than numspecies; AdiabaticNoslipMovingBoundary
\* raises exactly when the wall velocity length differs from dim;
\* InflowBoundary raises exactly when free_stream_velocity is missing.  A
\* constructor that raises yields no object; otherwise the object is
\* constructed, an omitted velocity being the zero vector of the dimension
\* for the farfield and the moving wall.
C13_ConfigurationErrorsRaisedAtConstruction ==
    /\ ctor.class = "FarfieldBoundary" =>
           /\ ctor.raised = "ValueError" <=>
                  \/ WrongVelocityLength
                  \/ ctor.numspecies > 0 /\ ~ctor.mass_fractions_given
                  \/ /\ ctor.numspecies > 0
                     /\ ctor.mass_fractions_given
                     /\ Len(ctor.mass_fractions_arg) # ctor.numspecies
           /\ (ctor.raised = None /\ ~ctor.velocity_given) =>
                  /\ Len(bc.free_stream_velocity) = ctor.dim
                  /\ \A i \in 1..ctor.dim : bc.free_stream_velocity[i] = 0
           /\ (ctor.raised = None /\ ctor.velocity_given) =>
                  bc.free_stream_velocity = ctor.velocity_arg
    /\ ctor.class = "AdiabaticNoslipMovingBoundary" =>
           /\ ctor.raised = "ValueError" <=> WrongVelocityLength
           /\ (ctor.raised = None /\ ~ctor.velocity_given) =>
                  /\ Len(bc.wall_velocity) = ctor.dim
                  /\ \A i \in 1..ctor.dim : bc.wall_velocity[i] = 0
           /\ (ctor.raised = None /\ ctor.velocity_given) =>
                  bc.wall_velocity = ctor.velocity_arg
    /\ ctor.class = "InflowBoundary" =>
           (ctor.raised = "ValueError" <=> ~ctor.velocity_given)
    /\ ctor.raised = "ValueError" => bc = NoBoundary
    /\ (ctor.class # None /\ ctor.raised = None) => bc.cls = ctor.class

\* a farfield constructor given a velocity of the right length and two
\* species but one mass fraction raised
C13_FarfieldWrongFractionsRaised ==
    /\ ctor.class = "FarfieldBoundary"
    /\ ctor.raised = "ValueError"
    /\ ctor.velocity_given /\ ~WrongVelocityLength
    /\ ctor.numspecies = 2
    /\ ctor.mass_fractions_given
    /\ Len(ctor.mass_fractions_arg) = 1

----------------------------------------------------------------------------
(* The viscous flux of the wall classes.                                  *)

\* viscous_divergence_flux was evaluated on one of the three classes that
\* install viscous_wall_flux
WallViscousFluxEvaluated ==
    /\ bc.cls \in { "IsothermalWallBoundary", "AdiabaticNoslipWallBoundary",
                    "SymmetryBoundary" }
    /\ out.op = "viscous_divergence_flux"

\* the interior gradients of the call
GradsMinus == [grad_cv |-> out.grad_cv_minus, grad_t |-> out.grad_t_minus]

\* C14: for IsothermalWallBoundary, AdiabaticNoslipWallBoundary and
\* SymmetryBoundary, viscous_divergence_flux runs the class's
\* viscous_wall_flux, which applies the physical viscous flux to the exterior
\* state and the exterior gradients; the caller's numerical_flux_func is
\* not applied, and the evaluation is the same for every numerical_flux_func
\* the caller passes.
C14_WallViscousFluxBypassesNumericalFlux ==
    WallViscousFluxEvaluated =>
        /\ out.ran = bc.viscous_flux_func
        /\ out.ran \in { "IsothermalWallBoundary.viscous_wall_flux",
                         "AdiabaticNoslipWallBoundary.viscous_wall_flux",
                         "SymmetryBoundary.viscous_wall_flux" }
        /\ out.num_flux = "viscous_flux"
        /\ out.grad_cv_plus = grad_cv_bc(out.state_minus, out.grad_cv_minus,
                                         out.nhat)
        /\ \A f \in ViscousNumericalFluxes :
               LET other == viscous_divergence_flux(bc, out.state_minus,
                                                    out.nhat, GradsMinus, f)
               IN  /\ other.num_flux = "viscous_flux"
                   /\ other.state_plus = out.state_plus
                   /\ other.grad_cv_plus = out.grad_cv_plus
                   /\ other.grad_t_plus = out.grad_t_plus

\* the viscous flux of an isothermal wall was evaluated with a numerical
\* flux other than the default, on a moving interior state with non-zero
\* gradients
C14_WallViscousWithUserFluxReached ==
    /\ bc.cls = "IsothermalWallBoundary"
    /\ out.op = "viscous_divergence_flux"
    /\ out.numerical_flux_func = "user_viscous_numerical_flux"
    /\ MomMinus # ZeroVec
    /\ out.grad_cv_minus.mass # ZeroVec
    /\ out.nhat.den = 5

----------------------------------------------------------------------------
(* The exterior gradients of the symmetry boundary.                       *)

\* the component of v along the normal of the call vanishes
NormalComponentIsZero(v) == Dot(v, out.nhat.num) = 0

\* C15: in SymmetryBoundary.viscous_wall_flux the exterior gradients handed
\* to the viscous flux have their wall-normal component zeroed:
\* grad_T+ . n = 0, and the exterior gradient of every conserved variable
\* (mass, energy, each momentum component, each species mass) has zero
\* component along n.
C15_SymmetryGradientsHaveNoNormalComponent ==
    (/\ bc.cls = "SymmetryBoundary"
     /\ out.op = "viscous_divergence_flux")
    => /\ NormalComponentIsZero(out.grad_t_plus)
       /\ NormalComponentIsZero(out.grad_cv_plus.mass)
       /\ NormalComponentIsZero(out.grad_cv_plus.energy)
       /\ \A i \in 1..2 : NormalComponentIsZero(out.grad_cv_plus.momentum[i])
       /\ \A i \in 1..Len(out.grad_cv_plus.species_mass) :
              NormalComponentIsZero(out.grad_cv_plus.species_mass[i])

----------------------------------------------------------------------------
(* The order of the statements of the divergence assembly.                *)

RECURSIVE SumOfBoundaryTerms(_)
\* the sum of the flux terms of the boundary tags S
SumOfBoundaryTerms(S) ==
    IF S = {} THEN 0
    ELSE LET t == CHOOSE x \in S : TRUE
         IN  BoundaryTerm(t) + SumOfBoundaryTerms(S \ {t})

RECURSIVE SumOfInteriorTerms(_)
\* the sum of the flux terms of the interior trace pairs 1..n
SumOfInteriorTerms(n) ==
    IF n = 0 THEN 0 ELSE InteriorTerm(n) + SumOfInteriorTerms(n - 1)

\* the number of times the event occurs in the log
CountOf(event) == Cardinality({ i \in DOMAIN elog : elog[i] = event })

\* the flux events of the log
FluxEvents ==
    { i \in DOMAIN elog : elog[i].ev \in {"boundary_flux", "interior_flux"} }

\* C17: when euler_operator returns, the boundary flux field it summed is
\* the sum of one term per key of *boundaries* and one term per interior
\* trace pair, whatever the order in which the keys and the pairs were
\* visited: each key and each pair contributed exactly one term, and nothing
\* else contributed.
C17_FluxAssemblyIsOrderIndependent ==
    (EulerReturned /\ eop = "euler_operator") =>
        /\ esum = SumOfBoundaryTerms(ebnd) + SumOfInteriorTerms(Len(epairs))
        /\ \A t \in ebnd : CountOf(Event("boundary_flux", t)) = 1
        /\ \A p \in 1..Len(epairs) : CountOf(Event("interior_flux", p)) = 1
        /\ Cardinality(FluxEvents) = Cardinality(ebnd) + Len(epairs)

\* euler_operator returned after visiting three boundary tags and two
\* interior trace pairs, neither in ascending order
C17_UnorderedAssemblyReached ==
    /\ EulerReturned
    /\ eop = "euler_operator"
    /\ eorder = <<3, 1, 2>>
    /\ epairs = <<2, 1>>

\* the log holds an event ev before position i
IssuedBefore(ev, i) == \E j \in 1..(i - 1) : elog[j].ev = ev

\* the log holds an event ev
Issued(ev) == IssuedBefore(ev, Len(elog) + 1)

\* C18: in an evaluation of euler_operator or entropy_stable_euler_operator,
\* the exchange of the conserved state, and of the temperature when the
\* state is a mixture, has been issued before any numerical flux of a domain
\* boundary or an interior interface is evaluated; the temperature is
\* exchanged only for a mixture, and otherwise the temperature seeds handed
\* to make_fluid_state_trace_pairs are None.
C18_ExchangeBeforeFlux ==
    /\ \A i \in FluxEvents :
           /\ IssuedBefore("exchange_cv", i)
           /\ emix => IssuedBefore("exchange_temperature", i)
    /\ Issued("exchange_temperature") => emix
    /\ Issued("interior_states") =>
           /\ emix => etseed = "tseed_interior_pairs"
           /\ ~emix => etseed = None

\* entropy_stable_euler_operator returned for a mixture on a mesh with a
\* boundary tag and an interior trace pair
C18_MixtureEntropyStableReached ==
    /\ EulerReturned
    /\ eop = "entropy_stable_euler_operator"
    /\ emix
    /\ Len(eorder) >= 1
    /\ Len(epairs) >= 1
    /\ Cardinality(FluxEvents) >= 2

\* euler_operator is being evaluated on a mixture state
MixtureEuler == eop = "euler_operator" /\ emix

\* C19 as stated: for a mixture state, euler_operator has issued both
\* exchanges (conserved state and temperature) before it projects or
\* otherwise reads the trace pairs of either.
C19_IssueAllThenConsumeAll ==
    MixtureEuler =>
        \A i \in DOMAIN elog :
            elog[i].ev \in {"interp_cv", "interp_temperature"} =>
                /\ IssuedBefore("exchange_cv", i)
                /\ IssuedBefore("exchange_temperature", i)

\* C19, amended: for a mixture state, euler_operator handles the exchanges
\* one after the other: the trace pairs of the conserved state are
\* exchanged and projected before the temperature exchange is issued, and
\* the temperature pairs are exchanged and projected before the fluid-state
\* trace pairs are built and before any flux is evaluated.
C19_ExchangesOneAfterTheOther ==
    MixtureEuler =>
        \A i \in DOMAIN elog :
            /\ elog[i].ev = "interp_cv" => IssuedBefore("exchange_cv", i)
            /\ elog[i].ev = "exchange_temperature" =>
                   IssuedBefore("interp_cv", i)
            /\ elog[i].ev = "interp_temperature" =>
                   IssuedBefore("exchange_temperature", i)
            /\ elog[i].ev \in {"interior_states", "boundary_flux",
                               "interior_flux"} =>
                   /\ IssuedBefore("interp_cv", i)
                   /\ IssuedBefore("interp_temperature", i)

\* euler_operator, on a mixture with an interior trace pair, has issued the
\* temperature exchange
C19_MixtureTemperatureExchangeReached ==
    /\ MixtureEuler
    /\ Len(epairs) >= 1
    /\ Issued("exchange_temperature")
    /\ ~Issued("interp_temperature")

----------------------------------------------------------------------------
\* the comparison outflow_state and inflow_state make at one node, from that
\* node's interior normal velocity and sound speed alone
BranchAtNode(f, state_minus, nhat) ==
    LET vn == DotN(velocity(state_minus), nhat)
        speed == IF f = "outflow_state" THEN Sqrt(vn * vn) ELSE vn
    IN  speed > speed_of_sound(state_minus)

\* the nodes of the face
FaceNodes == DOMAIN nodes.state_minus

\* C20: in outflow_state and inflow_state the supersonic/subsonic choice at a
\* node depends only on that node's interior normal velocity and sound
\* speed: the exterior state at every node is the one the function returns
\* for that node alone, with the branch of that node's own comparison; and
\* when the function is evaluated again after the interior state has changed
\* at one node, the exterior state at every other node is what it was.
C20_BranchSelectedPerNode ==
    [][nodes'.op # None =>
          /\ \A i \in DOMAIN nodes'.state_minus :
                /\ nodes'.supersonic[i] =
                       BranchAtNode(nodes'.op, nodes'.state_minus[i],
                                    nodes'.nhat[i])
                /\ nodes'.state_plus[i] =
                       bnd_state_func(bc', nodes'.op, nodes'.state_minus[i],
                                      nodes'.nhat[i])
          /\ nodes.op = nodes'.op =>
                \A i \in FaceNodes :
                    nodes'.state_minus[i] = nodes.state_minus[i] =>
                        nodes'.state_plus[i] = nodes.state_plus[i]]_vars

\* inflow_state was evaluated again after the first node of a face went from
\* subsonic to supersonic inflow: the two nodes of the face took different
\* branches, and their exterior states differ although the second node has
\* the interior state the first had
C20_NodesInDifferentBranchesReached ==
    /\ nodes.op = "inflow_state"
    /\ nodes.changed = 1
    /\ nodes.supersonic[1] /\ ~nodes.supersonic[2]
    /\ nodes.state_minus[1].energy > nodes.state_minus[2].energy
    /\ nodes.state_plus[1] # nodes.state_plus[2]

----------------------------------------------------------------------------
\* the free-stream state of the constructor's arguments: density p/(R T),
\* velocity, temperature and mass fractions (in halves) as given
FreeStreamOf(a) ==
    LET rho == a.pressure_arg \div (GasConst * a.temperature_arg)
        v == FarfieldVelocity(a)
    IN  [mass |-> rho,
         energy |-> (15 * rho * a.temperature_arg) \div 2
                        + (rho * Dot(v, v)) \div 2,
         momentum |-> <<rho * v[1], rho * v[2]>>,
         species_mass |->
             [i \in 1..a.numspecies |-> (rho * a.mass_fractions_arg[i]) \div 2]]

\* the exterior state and temperature the evaluation recorded are the free
\* stream of the constructor's arguments
ExteriorIsFreeStream ==
    /\ out.op \in {"cv_gradient_flux", "farfield_state"} =>
          /\ out.state_func = "farfield_state"
          /\ out.state_plus = FreeStreamOf(ctor)
          /\ fluid_temperature(out.state_plus) = ctor.temperature_arg
    /\ out.op \in {"temperature_gradient_flux", "temperature_bc"} =>
          /\ out.temperature_func = "FarfieldBoundary.temperature_bc"
          /\ out.t_plus = ctor.temperature_arg

\* every field of the state is a number
IsFinite(state) ==
    /\ ~cv_isnan(state)
    /\ \A i \in DOMAIN state.species_mass : ~isnan(state.species_mass[i])

\* C21 as stated: for FarfieldBoundary the exterior state (density, momentum,
\* energy, species mass) paired with any interior state is the free-stream
\* state of the constructor's arguments, the same for every interior state of
\* the same shape, and the exterior temperature is the free-stream
\* temperature.
C21_FarfieldIgnoresInterior ==
    (bc.cls = "FarfieldBoundary" /\ out.op # None) => ExteriorIsFreeStream

\* C21, amended: for FarfieldBoundary the exterior state paired with any
\* interior state whose fields are all finite is the free-stream state of the
\* constructor's arguments, the same for every such interior state of the
\* same shape, and the exterior temperature is the free-stream temperature.
C21_FarfieldIgnoresFiniteInterior ==
    (bc.cls = "FarfieldBoundary" /\ out.op # None /\ IsFinite(out.state_minus))
        => ExteriorIsFreeStream

\* a far-field boundary with one species was paired with an interior state
\* that has another density, velocity and temperature than the free stream
C21_FarfieldAgainstDifferentInteriorReached ==
    /\ bc.cls = "FarfieldBoundary"
    /\ out.op = "cv_gradient_flux"
    /\ ctor.numspecies = 1
    /\ IsFinite(out.state_minus)
    /\ out.state_minus.mass # out.state_plus.mass
    /\ velocity(out.state_minus) # velocity(out.state_plus)
    /\ temperature(out.state_minus) # ctor.temperature_arg
    /\ out.state_plus.mass > 0

----------------------------------------------------------------------------
\* the moving wall built an exterior state
MovingWallStateBuilt ==
    /\ bc.cls = "AdiabaticNoslipMovingBoundary"
    /\ out.op \in {"inviscid_divergence_flux", "cv_gradient_flux",
                   "viscous_divergence_flux"}

\* C22: for AdiabaticNoslipMovingBoundary the exterior momentum is
\* 2 rho- v_wall - m-, so that the interior and exterior velocities average
\* to v_wall, and is -m- when the wall velocity is left at its default;
\* exterior mass, energy and species mass are the interior ones; and the
\* exterior temperature of the temperature gradient flux is the interior
\* temperature.
C22_MovingWallReflectsRelativeMomentum ==
    /\ MovingWallStateBuilt =>
          LET v_wall == MovingWallVelocity(ctor)
          IN  /\ out.state_func = "adiabatic_noslip_state"
              /\ out.state_plus.momentum =
                     VecSub(VecScale(2 * out.state_minus.mass, v_wall),
                            out.state_minus.momentum)
              /\ VecAdd(velocity(out.state_minus), velocity(out.state_plus))
                     = VecScale(2, v_wall)
              /\ ~ctor.velocity_given =>
                     out.state_plus.momentum
                         = VecScale(-1, out.state_minus.momentum)
              /\ out.state_plus.mass = out.state_minus.mass
              /\ out.state_plus.energy = out.state_minus.energy
              /\ out.state_plus.species_mass = out.state_minus.species_mass
    /\ (bc.cls = "AdiabaticNoslipMovingBoundary"
            /\ out.op = "temperature_gradient_flux") =>
          /\ out.temperature_func = "_temperature_for_interior_state"
          /\ out.t_plus = temperature(out.state_minus)

\* a wall moving along the first axis was paired with a mixture state that
\* moves across it
C22_MovingWallReached ==
    /\ MovingWallStateBuilt
    /\ ctor.velocity_given
    /\ bc.wall_velocity = <<25, 0>>
    /\ out.state_minus.momentum[1] < 0
    /\ out.state_minus.momentum[2] > 0
    /\ out.state_minus.species_mass # <<>>
    /\ out.state_plus.momentum[1] > 0

----------------------------------------------------------------------------
\* inflow_state was evaluated on the face
InflowEvaluated == nodes.op = "inflow_state"

\* the values inflow_state computed at the nodes of the face
InflowValues == inflow_boundary_values(bc, nodes.state_minus, nodes.nhat)

\* C28: at every node where the interior normal velocity exceeds the interior
\* speed of sound, the exterior state of inflow_state has the velocity, the
\* sound speed and the mass density of the prescribed free stream.
C28_SupersonicInflowIsFreeStream ==
    InflowEvaluated =>
        \A i \in FaceNodes :
            nodes.supersonic[i] =>
                /\ InflowValues[i].velocity_boundary
                       = velocity(bc.free_stream_state)
                /\ InflowValues[i].c_boundary
                       = speed_of_sound(bc.free_stream_state)
                /\ nodes.state_plus[i].mass = bc.free_stream_state.mass

\* C29: the total energy of the exterior state of inflow_state is
\* p_b / (gamma - 1) + (1/2) rho_b |v_b|^2 for the boundary pressure, density
\* and velocity the function computed, in both branches.
C29_InflowEnergyIsConsistent ==
    InflowEvaluated =>
        \A i \in FaceNodes :
            LET b == InflowValues[i]
            IN  2 * nodes.state_plus[i].energy =
                    (2 * b.pressure_boundary * GammaDen)
                        \div (GammaNum - GammaDen)
                    + b.rho_boundary
                          * Dot(b.velocity_boundary, b.velocity_boundary)

----------------------------------------------------------------------------
\* a fraction compared with an integer
RatioAtLeast(r, k) == r.num >= k * r.den

RatioAtMost(r, k) == r.num <= k * r.den

\* every nodal value of the input lies within the bounds of the call
FieldWithinBounds ==
    \A i \in DOMAIN lim.field :
        /\ lim.field[i] >= lim.mmin
        /\ lim.mmax_given => lim.field[i] <= lim.mmax

\* C24: with modify_average=True every nodal value of the field the limiter
\* returns is >= mmin, and <= mmax when mmax is given, and an element whose
\* nodal values already lie within the bounds is returned unchanged.
C24_LimiterPreservesBounds ==
    (lim.called /\ lim.modify_average) =>
        /\ \A i \in DOMAIN lim.result :
              /\ RatioAtLeast(lim.result[i], lim.mmin)
              /\ lim.mmax_given => RatioAtMost(lim.result[i], lim.mmax)
        /\ FieldWithinBounds =>
              \A i \in DOMAIN lim.result :
                  lim.result[i].num = lim.field[i] * lim.result[i].den

\* C25: with modify_average=False the cell average of the returned field is
\* the cell average of the input field, with or without mmax.
C25_LimiterKeepsCellAverage ==
    (lim.called /\ ~lim.modify_average) =>
        lim.result[1].num + lim.result[2].num
            = (lim.field[1] + lim.field[2]) * lim.theta.den

----------------------------------------------------------------------------
(* C30: graceful exit of the example driver.                              *)

\* the health check of the call reported an error
HealthCheckFailed(d) ==
    \/ check_naninf_local(d.state.pressure)
    \/ check_naninf_local(d.state.temperature)
    \/ check_range_local(d.state.pressure, health_pres_min, health_pres_max)
    \/ check_range_local(d.state.temperature, health_temp_min, health_temp_max)
    \/ d.remote

\* the call wrote the file before it raised
WroteBeforeRaise(d, name) ==
    \E i, j \in DOMAIN d.log :
        /\ i < j
        /\ d.log[i] = Did(name, d.step)
        /\ d.log[j] = Did("raise", d.step)

\* the restart file of the step is the file the run was started from
StartedFromThisStep(d) ==
    d.rst_given /\ d.rst_filename = [step |-> d.step, cname |-> casename]

\* both dumps of the step and state are on disk, written by the call
VizDumped(d) ==
    WroteBeforeRaise(d, "my_write_viz") /\ File(d.step, d.state) \in d.viz_files

RestartDumped(d) ==
    /\ WroteBeforeRaise(d, "write_restart_file")
    /\ File(d.step, d.state) \in d.rst_files

\* a call whose health check passed returns the state it was given
ReturnedUnchanged(d) == d.pc = "stepping" /\ d.returned /\ d.result = d.state

\* my_pre_step ran in this step of the run
PreStepRan == drv'.calls = drv.calls + 1

\* C30 as stated: whenever the health check of my_pre_step reports an error,
\* a visualization file and a restart file of the current step and state are
\* written before MyRuntimeError leaves my_pre_step and the step is not
\* retried; when the check passes, nothing is raised and the state is
\* returned unchanged.
C30_GracefulExitWritesBothFiles ==
    [][/\ drv.pc = "raised" => drv' = drv
       /\ PreStepRan =>
            IF HealthCheckFailed(drv')
            THEN /\ drv'.pc = "raised" /\ ~drv'.returned
                 /\ VizDumped(drv')
                 /\ RestartDumped(drv')
            ELSE ReturnedUnchanged(drv')]_vars

\* C30, amended: whenever the health check of my_pre_step reports an error, a
\* visualization file of the current step and state is written before
\* MyRuntimeError leaves my_pre_step, and a restart file too unless the
\* restart file of the step is the file the run was started from, which is
\* left as it is; the step is not retried; when the check passes, nothing is
\* raised and the state is returned unchanged.
C30_GracefulExitKeepsTheStartingFile ==
    [][/\ drv.pc = "raised" => drv' = drv
       /\ PreStepRan =>
            IF HealthCheckFailed(drv')
            THEN /\ drv'.pc = "raised" /\ ~drv'.returned
                 /\ VizDumped(drv')
                 /\ IF StartedFromThisStep(drv')
                    THEN /\ ~(\E i \in DOMAIN drv'.log :
                                drv'.log[i].ev = "write_restart_file")
                         /\ drv'.rst_files = drv.rst_files
                    ELSE RestartDumped(drv')
            ELSE ReturnedUnchanged(drv')]_vars

\* a run that passed the health check of its first step and failed the
\* check of the second has left both dumps of that step and stopped
C30_FailedSecondStepReached ==
    /\ drv.pc = "raised"
    /\ drv.calls = 2
    /\ HealthCheckFailed(drv)
    /\ VizDumped(drv) /\ RestartDumped(drv)

====
